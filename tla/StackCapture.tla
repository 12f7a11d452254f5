---------------------------- MODULE StackCapture -----------------------------
(***************************************************************************)
(* How dwstOfLocation() and dwstOfException() come by the addresses of a   *)
(* stack trace (src/dwst-location.c, src/dwst-exception.c): by walking the *)
(* chain of saved frame pointers, which a crash may have left damaged, or  *)
(* by StackWalk64() within a session of dbghelp.  What is captured goes to *)
(* dwstOfProcess().                                                        *)
(***************************************************************************)
EXTENDS Naturals, Sequences

CONSTANTS
  Chains,  \* [frame -> [readable, next, ret]]: the stacks
  Pcs,     \* the values of the instruction pointer and the word at the stack's top
  MaxFrames

\* Frames are numbered, 0 is the null pointer.  The saved frame pointer may
\* lead anywhere, back to a frame before it too.
Frame == [readable : BOOLEAN, next : Nat, ret : Nat]

Variants == {"exception", "exception_walk", "location", "location_frames", "location_return"}

VARIABLES
  chain, variant, cip, top,  \* the input; top is the word csp points to
  pc, sp,   \* where the code is, and the frame it looks at
  frames,   \* the addresses captured
  symbols,  \* dbghelp's session is open
  given     \* history: what dwstOfProcessExt() was called with

vars == <<chain, variant, cip, top, pc, sp, frames, symbols, given>>
inputs == <<chain, variant, cip, top>>
count == Len(frames)

\* IsBadReadPtr(), and the two words of the frame.
Usable(s) == s \in DOMAIN chain /\ chain[s].readable
Valid(s) == Usable(s) /\ chain[s].next # 0 /\ chain[s].ret # 0

Init ==
  /\ chain \in Chains /\ variant \in Variants /\ cip \in Pcs /\ top \in Pcs
  /\ variant = "location_return" => Usable(1) /\ chain[1].ret # 0
  /\ pc = "start" /\ sp = 1 /\ frames = <<>> /\ symbols = FALSE /\ given = <<>>

-----------------------------------------------------------------------------

\* dwstOfException() without dbghelp: the faulting instruction, and the word at
\* the top of the stack in case the frame is not set up yet.
StartException ==
  /\ pc = "start" /\ variant = "exception"
  /\ frames' = <<cip>> \o IF top # 0 THEN <<top - 1>> ELSE <<>>
  /\ pc' = "frames"
  /\ UNCHANGED <<inputs, sp, symbols, given>>

\* With dbghelp: SymInitialize() opens the session.
StartWalk ==
  /\ pc = "start" /\ variant = "exception_walk"
  /\ symbols' = TRUE
  /\ pc' = "walk"
  /\ UNCHANGED <<inputs, sp, frames, given>>

\* dwstOfLocation() without RtlCaptureStackBackTrace() and without dbghelp.
StartFrames ==
  /\ pc = "start" /\ variant = "location_frames"
  /\ pc' = "frames"
  /\ UNCHANGED <<inputs, sp, frames, symbols, given>>

\* The same with dbghelp: only the caller's address.
StartReturn ==
  /\ pc = "start" /\ variant = "location_return"
  /\ frames' = <<chain[sp].ret - 1>>
  /\ pc' = "convert"
  /\ UNCHANGED <<inputs, sp, symbols, given>>

\* RtlCaptureStackBackTrace() itself: it returns at most as many return
\* addresses as there is room for, which are then made to lie in the calls.
StartCapture ==
  /\ pc = "start" /\ variant = "location"
  /\ pc' = "capture"
  /\ UNCHANGED <<inputs, sp, frames, symbols, given>>

CaptureMore ==
  /\ pc = "capture"
  /\ count < MaxFrames
  /\ Usable(sp) /\ chain[sp].ret # 0
  /\ frames' = Append(frames, chain[sp].ret - 1)
  /\ sp' = chain[sp].next
  /\ UNCHANGED <<inputs, pc, symbols, given>>

CaptureEnds ==
  /\ pc = "capture"
  /\ pc' = "convert"
  /\ UNCHANGED <<inputs, sp, frames, symbols, given>>

-----------------------------------------------------------------------------
(* captureStackTrace()                                                     *)

\* A walk that relies on the chain to end.
FollowUnbounded ==
  /\ pc = "frames"
  /\ Valid(sp)
  /\ frames' = IF count < MaxFrames THEN Append(frames, chain[sp].ret - 1) ELSE frames
  /\ sp' = chain[sp].next
  /\ UNCHANGED <<inputs, pc, symbols, given>>

\* The caller's frame is noted, and the chain followed.
Follow ==
  /\ pc = "frames"
  /\ count < MaxFrames
  /\ Valid(sp)
  /\ frames' = Append(frames, chain[sp].ret - 1)
  /\ sp' = chain[sp].next
  /\ UNCHANGED <<inputs, pc, symbols, given>>

\* A test of the frame to be walked to instead of the one walked from.
FollowEndsEarly ==
  /\ pc = "frames"
  /\ count >= MaxFrames \/ (Valid(sp) => ~Usable(chain[sp].next))
  /\ pc' = "convert"
  /\ UNCHANGED <<inputs, sp, frames, symbols, given>>

FollowEnds ==
  /\ pc = "frames"
  /\ count >= MaxFrames \/ ~Valid(sp)
  /\ pc' = "convert"
  /\ UNCHANGED <<inputs, sp, frames, symbols, given>>

-----------------------------------------------------------------------------
(* captureStackWalk(): StackWalk64() gives the instruction pointer first,  *)
(* then the return addresses it can find.                                  *)

WalkPc == IF count = 0 THEN cip ELSE IF Usable(sp) THEN chain[sp].ret ELSE 0

\* A walk that takes every address for a return address.
WalkDecrementsAll ==
  /\ pc = "walk"
  /\ count < MaxFrames
  /\ WalkPc # 0
  /\ frames' = Append(frames, WalkPc - 1)
  /\ sp' = IF count = 0 THEN sp ELSE chain[sp].next
  /\ UNCHANGED <<inputs, pc, symbols, given>>

\* Only the first address is that of an instruction.
Walk ==
  /\ pc = "walk"
  /\ count < MaxFrames
  /\ WalkPc # 0
  /\ frames' = Append(frames, IF count = 0 THEN WalkPc ELSE WalkPc - 1)
  /\ sp' = IF count = 0 THEN sp ELSE chain[sp].next
  /\ UNCHANGED <<inputs, pc, symbols, given>>

\* StackWalk64() may fail at any frame; an address of 0 ends the walk too.
WalkEnds ==
  /\ pc = "walk"
  /\ pc' = "convert"
  /\ UNCHANGED <<inputs, sp, frames, symbols, given>>

-----------------------------------------------------------------------------

\* dwstOfProcessExt(): the callbacks are made here.
Convert ==
  /\ pc = "convert"
  /\ given' = frames
  /\ pc' = "cleanup"
  /\ UNCHANGED <<inputs, sp, frames, symbols>>

\* SymCleanup()
Cleanup ==
  /\ pc = "cleanup"
  /\ symbols' = FALSE
  /\ pc' = "done"
  /\ UNCHANGED <<inputs, sp, frames, given>>

Done == pc = "done" /\ UNCHANGED vars

Next ==
  \/ StartException \/ StartWalk \/ StartFrames \/ StartReturn
  \/ StartCapture \/ CaptureMore \/ CaptureEnds
  \/ Follow \/ FollowEnds \/ Walk \/ WalkEnds
  \/ Convert \/ Cleanup \/ Done

Spec == Init /\ [][Next]_vars

-----------------------------------------------------------------------------

\* The variables' types.  The buffer is never overrun, also where the first
\* entries of it are taken before the chain is walked.
TypeOK ==
  /\ pc \in {"start", "frames", "walk", "capture", "convert", "cleanup", "done"}
  /\ sp \in Nat
  /\ frames \in Seq(Nat) /\ count <= MaxFrames
  /\ symbols \in BOOLEAN
  /\ given \in Seq(Nat)

\* The frame that k steps along the chain lead to, and 0 past its end.
Hops ==
  LET hop[k \in 0 .. MaxFrames] ==
        IF k = 0 THEN 1 ELSE IF Usable(hop[k - 1]) THEN chain[hop[k - 1]].next ELSE 0
  IN hop

\* How many of the frames were not taken from the chain.
Before ==
  CASE variant = "exception" -> IF top # 0 THEN 2 ELSE 1
    [] variant = "exception_walk" -> 1
    [] OTHER -> 0

\* The trace is the faulting instruction, exactly, and then the calls of the
\* chain from the inside out, each by an address that lies within the call
\* instruction instead of after it; none is left out or taken twice.
FramesAreCalls ==
  /\ variant \in {"exception", "exception_walk"} /\ count > 0 => frames[1] = cip
  /\ \A k \in Before + 1 .. count :
       /\ Usable(Hops[k - Before - 1])
       /\ frames[k] + 1 = chain[Hops[k - Before - 1]].ret

\* The walk along the frame pointers stops early only where the chain does, and
\* dbghelp's session lasts for the walk and the callbacks, which ask for its
\* symbols, and no longer.
FramesComplete ==
  /\ (pc = "done" /\ variant \in {"exception", "location_frames"} /\ Len(given) < MaxFrames) =>
       ~Valid(Hops[Len(given) - Before])
  /\ pc \in {"walk", "convert", "cleanup"} => (symbols <=> variant = "exception_walk")
  /\ pc = "done" => ~symbols

=============================================================================
