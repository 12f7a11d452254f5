----------------------------- MODULE StackTrace -----------------------------
(***************************************************************************)
(* A stack trace as a whole: StackCapture fills the buffer of addresses    *)
(* that dwstOfProcessExt(), ProcessGroups, is called with, and goes on     *)
(* when that has returned.                                                 *)
(***************************************************************************)
EXTENDS ProcessGroups

CONSTANTS Chains, Pcs, MaxFrames

VARIABLES
  chain, variant, cip, top,  \* see StackCapture
  stage, sp, frames, symbols

Capture == INSTANCE StackCapture WITH pc <- stage, given <- addr

ASSUME FramesAssumption == MaxFrames \in Nat /\ MaxFrames > 2
ASSUME ChainsAssumption ==
  \A ch \in Chains : ch \in [DOMAIN ch -> Capture!Frame] /\ 0 \notin DOMAIN ch
ASSUME PcsAssumption == Pcs \subseteq Nat

captureVars == <<chain, variant, cip, top, stage, sp, frames, symbols>>
groupVars == <<loaded, pc, s, c, base, name, converted, groups, changes, unnamed>>

TraceInit == Capture!Init /\ Init

\* The call of dwstOfProcessExt() has begun and not ended.
Converting == stage = "cleanup" /\ pc # "done"

CaptureStep == ~Converting /\ Capture!Next /\ UNCHANGED groupVars
GroupStep == Converting /\ Loop /\ UNCHANGED captureVars

\* What other threads do before the call is in the choice of the modules that
\* are loaded at first.
OthersStep ==
  /\ Converting
  /\ \E m \in Modules : Load(m) \/ Unload(m)
  /\ UNCHANGED captureVars

-----------------------------------------------------------------------------

\* The trace is the faulting instruction, exactly, and then the calls of the
\* chain from the inside out, each by an address inside the call instruction
\* (captureStackTrace(), captureStackWalk()).
FramesAreCalls == Capture!FramesAreCalls

\* The walk along the frame pointers stops early only where the chain does, and
\* never leaves the buffer; dbghelp's session lasts for the callbacks, which ask
\* for its symbols: it is open whenever dwstOfProcessExt() hands a group on.
FramesComplete ==
  /\ Capture!TypeOK /\ Capture!FramesComplete
  /\ pc = "convert" => (symbols <=> variant = "exception_walk")

=============================================================================
