----------------------------- MODULE CrashReport -----------------------------
(***************************************************************************)
(* A stack trace from the capture to the line that a reader sees:          *)
(* exceptionPrinter() (ExceptionDialog) has dwstOfExceptionW() take the    *)
(* trace of the crash (StackTrace), and dwstOfFileExt() calls dlgPrint()   *)
(* back for every group of addresses, with what it found out about each    *)
(* (StackReport).  A trace that is taken for another purpose has callbacks *)
(* of the application's instead.                                           *)
(***************************************************************************)
EXTENDS StackTrace

CONSTANT MaxCalls  \* see ExceptionDialog

ASSUME CallsAssumption == MaxCalls \in Nat
ASSUME NoneAssumption == None \notin Nat

VARIABLES
  crash,    \* the input: exceptionPrinter() takes the trace
  refused,  \* dwarf_pe_init() finds no debug information for this group
  told,     \* the callbacks due for the group: 0 is the base address
  filter, myExtraInfo, texts, setter, arg, calls,  \* see ExceptionDialog
  printer, shown, numbered, lastBase, trace, lines

Dialog == INSTANCE ExceptionDialog WITH count <- numbered

traceVars == <<captureVars, groupVars, addr>>
tellVars == <<refused, told>>
dialogVars == <<filter, myExtraInfo, texts, setter, arg, calls,
                printer, shown, numbered, lastBase, trace, lines>>
crashVars == <<traceVars, crash, tellVars, dialogVars>>

CrashInit ==
  /\ TraceInit /\ Dialog!DialogInit
  /\ crash \in BOOLEAN
  /\ crash => variant \in {"exception", "exception_walk"}
  /\ refused = FALSE /\ told = 0

-----------------------------------------------------------------------------

\* dwstOfExceptionW() has been called.
Taking == ~crash \/ printer \notin {"idle", "info", "show_info"}

\* Nothing is left to be called back for the group.
AllTold == crash => told > c

TakeTrace ==
  /\ Taking
  /\ \/ CaptureStep /\ UNCHANGED told
     \/ (pc = "convert" => AllTold) /\ GroupStep /\ told' = 0
  /\ UNCHANGED <<crash, refused, dialogVars>>

ChangeModules == OthersStep /\ UNCHANGED <<crash, tellVars, dialogVars>>

Telling == crash /\ stage = "cleanup" /\ pc = "convert"

Cb(what, isCall) ==
  [what |-> what, addr |-> IF isCall THEN None ELSE addr[s + told - 1],
   base |-> base, name |-> name, of |-> s + told - 1]

\* The base address of the group, and what becomes of its image.
TellBase ==
  /\ Telling /\ told = 0
  /\ Dialog!PrintBase([what |-> "base_addr", addr |-> None, base |-> base, name |-> name, of |-> 0])
  /\ told' = 1 /\ refused' \in BOOLEAN
  /\ UNCHANGED <<traceVars, crash>>

NextAddress == told' = told + 1 /\ UNCHANGED <<traceVars, crash, refused>>

\* An address about which nothing is known, or only that it has no source.
TellUnknown ==
  /\ Telling /\ told \in 1 .. c
  /\ \E what \in IF refused THEN {"no_dbg_sym"} ELSE {"not_found", "no_src_file"} :
       Dialog!PrintUnknown(Cb(what, FALSE))
  /\ NextAddress

\* A source line of the unit's, or, while its session is open, of dbghelp's.
TellSource ==
  /\ Telling /\ told \in 1 .. c
  /\ refused => symbols
  /\ Dialog!PrintSource(Cb(IF refused THEN "no_dbg_sym" ELSE "source", FALSE))
  /\ NextAddress

\* The caller of the function that is inlined at the address before.
TellCall ==
  /\ Telling /\ told \in 2 .. c + 1
  /\ trace[Len(trace)].what = "source" /\ trace[Len(trace)].addr # None
  /\ Dialog!PrintSource([trace[Len(trace)] EXCEPT !.addr = None])
  /\ UNCHANGED <<traceVars, crash, tellVars>>

\* An address with a line outside of every function is not called back with.
TellNothing ==
  /\ Telling /\ told \in 1 .. c
  /\ ~refused
  /\ NextAddress /\ UNCHANGED dialogVars

Tell == TellBase \/ TellUnknown \/ TellSource \/ TellCall \/ TellNothing

Report ==
  /\ Dialog!SkipInfo \/ Dialog!TestInfo \/ Dialog!ShowInfo
       \/ (stage = "done" /\ Dialog!Show)
  /\ UNCHANGED <<traceVars, crash, tellVars>>

\* The rest of the program, and its user.
Application ==
  /\ Dialog!Set \/ (crash /\ Dialog!Crash) \/ Dialog!Close
  /\ UNCHANGED <<traceVars, crash, tellVars>>

CrashNext == TakeTrace \/ ChangeModules \/ Tell \/ Report \/ Application

\* The thread that takes the trace goes on; the others, and the user, need not.
CrashFairness == WF_crashVars(TakeTrace \/ Tell \/ Report)

CrashSpec == CrashInit /\ [][CrashNext]_crashVars /\ CrashFairness

-----------------------------------------------------------------------------

\* While one text is shown and another is set, none leaks (ExceptionDialog).
OneTextKept == Dialog!OneTextKept

\* What ExceptionDialog says of the lines; and each shows an address of the
\* stack below the base of the group that dwstOfProcessExt() put it into, which
\* is named for its module unless modules have come and gone meanwhile.
LinesInOrder ==
  /\ Dialog!LinesInOrder
  /\ \A l \in DOMAIN lines :
       lines[l].kind = "stack" =>
         LET above == CHOOSE m \in 1 .. l : /\ lines[m].kind = "base"
                                            /\ \A n \in m + 1 .. l : lines[n].kind = "stack"
         IN \/ \E g \in DOMAIN groups :
                 /\ lines[l].of \in groups[g].from .. groups[g].to
                 /\ lines[above].base = groups[g].base
                 /\ changes = 0 => lines[above].name = groups[g].name
            \/ pc = "convert" /\ lines[l].of \in s .. s + c - 1 /\ lines[above].base = base

\* Outside of the moment between free() and the assignment, a crash shows the
\* text that is set and never memory that was freed.
ShowsText ==
  [][(printer = "show_info" /\ printer' = "trace" /\ setter # "assign") =>
       shown' = myExtraInfo]_crashVars

\* Whatever the chain leads to, and however the modules change, a trace that
\* was begun ends, and after a crash the dialog opens.
TraceEnds ==
  /\ Taking ~> (stage = "done")
  /\ (printer # "idle") ~> (printer \in {"open", "closed"})

=============================================================================
