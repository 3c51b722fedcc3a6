------------------------------ MODULE Relaunch ------------------------------
(***************************************************************************)
(* env.relaunch: a program ends and is started again as a fresh process    *)
(* (src/src/lua/relaunch.cpp, src/src/commands/run.h,                      *)
(* src/launcher/launcher.c, src/src/relaunch_protocol.h).                  *)
(*                                                                         *)
(* A parent starts the program, gives it a handshake (a file and a nonce   *)
(* of its own) and waits.  The program writes nonce and argument tail into *)
(* that file and exits with LXE_RELAUNCH_EXIT; the parent starts the next  *)
(* one.  The parent is the launcher or, when nobody listens or the file    *)
(* cannot be written, the lxe that ran the program ("nested").             *)
(*                                                                         *)
(* A handshake is the pair of its parent and a number: file names and      *)
(* nonces are distinct.  The child takes it out of its environment before  *)
(* any Lua runs, so giving and taking it are one step here.                *)
(***************************************************************************)
EXTENDS Naturals, Sequences, FiniteSets

CONSTANTS Tails,          \* argument tails
          LongTails,      \* those longer than LXE_RELAUNCH_MAX_BYTES
          NoTail,
          Code,           \* exit codes, among them
          Magic, Failed,  \* LXE_RELAUNCH_EXIT and the 1 of an error
          NoCode,
          MaxBurst, Window,
          MaxTime,        \* bound: the clock
          MaxRequests,    \* bound: relaunches the programs ask for
          MaxLostWrites   \* bound: handshake files that cannot be written

ASSUME RelaunchAssumption ==
  /\ LongTails \subseteq Tails /\ NoTail \notin Tails
  /\ {Magic, Failed} \subseteq Code /\ Magic # Failed /\ NoCode \notin Code
  /\ MaxBurst \in Nat \ {0} /\ Window \in Nat
  /\ MaxTime \in Nat /\ MaxRequests \in Nat /\ MaxLostWrites \in Nat

VARIABLES proc,        \* proc[i]: the i-th process of the chain that was started
          files,       \* the handshake files, as the requests written into them
          now,         \* GetTickCount64
          relaunches,  \* history: when a parent decided to start the program again
          requests,    \* bound counter
          lost         \* bound counter

vars == <<proc, files, now, relaunches, requests, lost>>

NoHandshake == <<0, 0>>

\* A process: the handshake it was started with, the tail it asks for, and as a
\* parent its recent relaunches, the number of its last child and the next tail.
Process(kind, at, hand) ==
  [kind |-> kind, at |-> at, hand |-> hand, asked |-> NoTail, performs |-> FALSE,
   recent |-> <<>>, sequence |-> 0, child |-> 0, next |-> NoTail, code |-> NoCode]

\* A launcher is started, or lxe itself with nobody who listens.
Init == /\ proc \in {<<Process("launcher", "start", NoHandshake)>>, <<Process("lxe", "run", NoHandshake)>>}
        /\ files = {}
        /\ now = 0 /\ relaunches = <<>>
        /\ requests = 0 /\ lost = 0

At(p, place) == proc[p].at = place
Set(p, r) == proc' = [proc EXCEPT ![p] = r]
End(p, code) == Set(p, [proc[p] EXCEPT !.at = "ended", !.code = code])

\* The relaunches of a parent that are still inside the window.  The clock does not go
\* back, so those outside are the first ones, whether they are dropped from the front
\* (run_nested) or wherever they stand (launcher.c).
Recent(p) ==
  LET r == proc[p].recent
      old == {i \in 1 .. Len(r) : now - r[i] > Window}
  IN SubSeq(r, Cardinality(old) + 1, Len(r))
TooOften(p) == Len(Recent(p)) >= MaxBurst
-----------------------------------------------------------------------------
\* env.relaunch, any number of times; the last call's arguments count.
Request(p, tail) ==
  /\ At(p, "run") /\ proc[p].kind = "lxe"
  /\ requests < MaxRequests
  /\ requests' = requests + 1
  /\ Set(p, [proc[p] EXCEPT !.asked = tail])
  /\ UNCHANGED <<files, now, relaunches, lost>>

\* The program exits with any code whatever it asked for, or is killed or crashes,
\* which nobody does with the code of a relaunch.
Exit(p, code) ==
  /\ At(p, "run") \/ (At(p, "written") /\ code # Magic)
  /\ End(p, code)
  /\ UNCHANGED <<files, now, relaunches, requests, lost>>

\* The program returns with a request and no handshake: it is the parent from here on.
PerformNested(p) ==
  /\ At(p, "run") /\ proc[p].asked # NoTail /\ proc[p].hand = NoHandshake
  /\ Set(p, [proc[p] EXCEPT !.at = "start", !.performs = TRUE, !.next = proc[p].asked])
  /\ UNCHANGED <<files, now, relaunches, requests, lost>>

\* Mutant of Perform: the nonce is not written.
PerformWithoutNonce(p) ==
  LET h == proc[p].hand IN
  /\ At(p, "run") /\ proc[p].asked # NoTail /\ h # NoHandshake
  /\ files' = {f \in files : f.file # h} \cup {[file |-> h, nonce |-> NoHandshake, tail |-> proc[p].asked]}
  /\ Set(p, [proc[p] EXCEPT !.at = "written"])
  /\ UNCHANGED <<now, relaunches, requests, lost>>

\* ... with a handshake: the request goes to the parent's file.
Perform(p) ==
  LET h == proc[p].hand IN
  /\ At(p, "run") /\ proc[p].asked # NoTail /\ h # NoHandshake
  /\ files' = {f \in files : f.file # h} \cup {[file |-> h, nonce |-> h, tail |-> proc[p].asked]}
  /\ Set(p, [proc[p] EXCEPT !.at = "written"])
  /\ UNCHANGED <<now, relaunches, requests, lost>>

\* ... which cannot be opened: this process starts the next one itself.
PerformInPlace(p) ==
  /\ At(p, "run") /\ proc[p].asked # NoTail /\ proc[p].hand # NoHandshake
  /\ lost < MaxLostWrites
  /\ lost' = lost + 1
  /\ Set(p, [proc[p] EXCEPT !.at = "start", !.performs = TRUE, !.next = proc[p].asked])
  /\ UNCHANGED <<files, now, relaunches, requests>>

\* Mutant of ExitMagic: exit(), whose handlers may end the process with another code.
ExitThroughHandlers(p) ==
  /\ At(p, "written")
  /\ \E code \in Code : Set(p, [proc[p] EXCEPT !.at = "ended", !.performs = TRUE, !.code = code])
  /\ UNCHANGED <<files, now, relaunches, requests, lost>>

ExitMagic(p) ==
  /\ At(p, "written")
  /\ Set(p, [proc[p] EXCEPT !.at = "ended", !.performs = TRUE, !.code = Magic])
  /\ UNCHANGED <<files, now, relaunches, requests, lost>>
-----------------------------------------------------------------------------
\* Mutant of StartChild: the handshake is not put into the child's environment.
StartChildAlone(p, parent) ==
  LET n == parent.sequence + 1 IN
  proc' = Append([proc EXCEPT ![p] = [parent EXCEPT !.at = "wait", !.sequence = n, !.child = Len(proc) + 1]],
                 Process("lxe", "run", NoHandshake))

\* A parent starts its next child with a fresh handshake.
StartChild(p, parent) ==
  LET n == parent.sequence + 1 IN
  proc' = Append([proc EXCEPT ![p] = [parent EXCEPT !.at = "wait", !.sequence = n, !.child = Len(proc) + 1]],
                 Process("lxe", "run", <<p, n>>))

Parent(p, kind) == At(p, "start") /\ proc[p].kind = kind

LauncherStarts(p) ==
  /\ Parent(p, "launcher")
  /\ StartChild(p, proc[p])
  /\ UNCHANGED <<files, now, relaunches, requests, lost>>

\* run_nested checks the burst before every start, the first one included.
NestedStarts(p) ==
  /\ Parent(p, "lxe") /\ ~TooOften(p)
  /\ relaunches' = Append(relaunches, now)
  /\ StartChild(p, [proc[p] EXCEPT !.recent = Append(Recent(p), now)])
  /\ UNCHANGED <<files, now, requests, lost>>

NestedRefuses(p) ==
  /\ Parent(p, "lxe") /\ TooOften(p)
  /\ End(p, Failed)
  /\ UNCHANGED <<files, now, relaunches, requests, lost>>

\* The application or the runtime is not there (after the wait of an update's swap),
\* or CreateProcess fails.
StartFails(p) ==
  /\ At(p, "start")
  /\ proc[p].kind = "lxe" => ~TooOften(p)
  /\ End(p, Failed)
  /\ UNCHANGED <<files, now, relaunches, requests, lost>>

\* read_request: what the child of p wrote, if it is for p and not too long.
Written(p) == LET h == <<p, proc[p].sequence>> IN
              {f \in files : f.file = h /\ f.nonce = h /\ f.tail \notin LongTails}
Asks(p) == proc[proc[p].child].code = Magic /\ Written(p) # {}

ChildEnded(p) == At(p, "wait") /\ At(proc[p].child, "ended")

Removed(p) == files' = {f \in files : f.file # <<p, proc[p].sequence>>}

\* The child is gone and asked for nothing: its code is passed through.
PassThrough(p) ==
  /\ ChildEnded(p) /\ ~Asks(p)
  /\ End(p, proc[proc[p].child].code)
  /\ Removed(p)
  /\ UNCHANGED <<now, relaunches, requests, lost>>

\* Mutant of NestedGoesOn: any exit with a request in the file is a relaunch.
NestedGoesOnAnyCode(p) ==
  /\ ChildEnded(p) /\ proc[p].kind = "lxe" /\ Written(p) # {}
  /\ \E f \in Written(p) : Set(p, [proc[p] EXCEPT !.at = "start", !.next = f.tail])
  /\ Removed(p)
  /\ UNCHANGED <<now, relaunches, requests, lost>>

NestedGoesOn(p) ==
  /\ ChildEnded(p) /\ proc[p].kind = "lxe" /\ Asks(p)
  /\ \E f \in Written(p) : Set(p, [proc[p] EXCEPT !.at = "start", !.next = f.tail])
  /\ Removed(p)
  /\ UNCHANGED <<now, relaunches, requests, lost>>

\* Mutant of LauncherGoesOn: one more than the burst is let through.
LauncherGoesOnOnceMore(p) ==
  /\ ChildEnded(p) /\ proc[p].kind = "launcher" /\ Asks(p)
  /\ Len(Recent(p)) <= MaxBurst
  /\ relaunches' = Append(relaunches, now)
  /\ \E f \in Written(p) :
       Set(p, [proc[p] EXCEPT !.at = "start", !.next = f.tail, !.recent = Append(Recent(p), now)])
  /\ Removed(p)
  /\ UNCHANGED <<now, requests, lost>>

\* The launcher checks the burst when it is asked.
LauncherGoesOn(p) ==
  /\ ChildEnded(p) /\ proc[p].kind = "launcher" /\ Asks(p) /\ ~TooOften(p)
  /\ relaunches' = Append(relaunches, now)
  /\ \E f \in Written(p) :
       Set(p, [proc[p] EXCEPT !.at = "start", !.next = f.tail, !.recent = Append(Recent(p), now)])
  /\ Removed(p)
  /\ UNCHANGED <<now, requests, lost>>

\* Mutant of LauncherRefuses: the refusal is reported and nothing else.
LauncherOnlyReports(p) ==
  ChildEnded(p) /\ proc[p].kind = "launcher" /\ Asks(p) /\ TooOften(p) /\ UNCHANGED vars

LauncherRefuses(p) ==
  /\ ChildEnded(p) /\ proc[p].kind = "launcher" /\ Asks(p) /\ TooOften(p)
  /\ End(p, Failed)
  /\ Removed(p)
  /\ UNCHANGED <<now, relaunches, requests, lost>>

Pass == /\ now < MaxTime
        /\ now' = now + 1
        /\ UNCHANGED <<proc, files, relaunches, requests, lost>>

Over == At(1, "ended") /\ UNCHANGED vars

Programs(p) == \/ \E tail \in Tails : Request(p, tail)
               \/ \E code \in Code : Exit(p, code)
               \/ PerformNested(p) \/ Perform(p) \/ PerformInPlace(p)

System(p) == \/ ExitMagic(p) \/ LauncherStarts(p) \/ NestedStarts(p) \/ NestedRefuses(p)
             \/ StartFails(p) \/ PassThrough(p) \/ NestedGoesOn(p)
             \/ LauncherGoesOn(p) \/ LauncherRefuses(p)

Next == \/ \E p \in 1 .. Len(proc) : Programs(p) \/ System(p)
        \/ Pass \/ Over

Spec == Init /\ [][Next]_vars

\* Parents and exiting processes are scheduled; a program may run for ever.
FairSpec == Spec /\ \A p \in 1 .. MaxRequests + 2 :
              WF_vars(p <= Len(proc) /\ System(p))
-----------------------------------------------------------------------------
Handshakes == Nat \X Nat

Processes ==
  [kind : {"launcher", "lxe"}, at : {"run", "written", "start", "wait", "ended"},
   hand : Handshakes, asked : Tails \cup {NoTail}, performs : BOOLEAN,
   recent : Seq(Nat), sequence : Nat, child : Nat, next : Tails \cup {NoTail},
   code : Code \cup {NoCode}]

TypeOK ==
  /\ proc \in Seq(Processes)
  /\ files \subseteq [file : Handshakes, nonce : Handshakes \ {NoHandshake}, tail : Tails]
  /\ now \in Nat /\ relaunches \in Seq(Nat)
  /\ requests \in 0 .. MaxRequests /\ lost \in 0 .. MaxLostWrites

\* A program is followed by another one only if it performed a relaunch to its end
\* (one that is killed after it wrote the file does not), and the next one gets the
\* arguments of its last request.
RelaunchesWhatWasAsked ==
  [][\A p \in 1 .. Len(proc) :
       (proc[p].at # "start" /\ proc'[p].at = "start") =>
         IF proc[p].at = "wait"
         THEN /\ proc[proc[p].child].performs
              /\ proc'[p].next = proc[proc[p].child].asked
         ELSE proc'[p].next = proc[p].asked]_vars

\* "N restarts leave ONE waiting parent, never a chain" (relaunch.h): the first process,
\* and below it only those that had a handshake and could not write it.
NeverAChain == Cardinality({p \in 2 .. Len(proc) : At(p, "wait")}) <= lost

\* The last process performed a relaunch, and yet everything ended without a failure.
LostSilently == At(1, "ended") /\ proc[1].code # Failed /\ proc[Len(proc)].performs

\* "the relaunch would be lost silently" (perform): it is not.
NeverLostSilently == ~LostSilently

\* ... as far as the command line fits into the handshake file.
FittingNeverLost == LostSilently => proc[Len(proc)].asked \in LongTails

\* Whoever starts it again, launcher or nested parent, the program is relaunched no
\* more often than BurstLimiter allows: one burst, and one more for each handshake that
\* could not be written, for that program counts for itself from there on.
Limiter == INSTANCE BurstLimiter WITH MaxBurst <- MaxBurst * (MaxLostWrites + 1)
BurstSpec == Limiter!BurstSpec

\* A request that was handed over is answered, by the next program or by the end: no
\* parent waits for ever.
RequestIsAnswered ==
  \A p \in 1 .. MaxRequests + 2 :
    (p <= Len(proc) /\ At(p, "written"))
      ~> (Len(proc) > p \/ At(1, "ended"))
=============================================================================
