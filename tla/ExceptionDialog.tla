--------------------------- MODULE ExceptionDialog ---------------------------
(***************************************************************************)
(* The crash dialog (src/dwst-exception-dialog.c): dwstExceptionDialog()   *)
(* installs exceptionPrinter() as the filter for unhandled exceptions and  *)
(* replaces the extra text; when a thread crashes, the filter writes that  *)
(* text and the stack trace, line by line as dlgPrint() is called back,    *)
(* into the dialog.  CrashReport makes the callbacks.                      *)
(***************************************************************************)
EXTENDS Naturals, Sequences, FiniteSets

CONSTANTS
  MaxCalls,  \* bound: how often dwstExceptionDialog() is called
  None       \* no text, no address, no number

(***************************************************************************)
(* A callback: what is as in UnitInfo, addr the address or None for the    *)
(* caller of an inlined function; base and name are those of its group,    *)
(* and of counts the captured addresses from 1.                            *)
(***************************************************************************)
Freed == 0   \* what memory that was freed holds

VARIABLES
  filter,       \* the filter is installed
  myExtraInfo,  \* the pointer to the text
  texts,        \* the texts that are allocated
  setter, arg,  \* the thread calling dwstExceptionDialog(): where it is, and for what
  calls,        \* the number of calls; a call's text is known by its number
  printer,      \* the crashed thread: where exceptionPrinter() is
  shown,        \* the text written into the dialog, or Freed
  count, lastBase,  \* dialog_info
  trace,        \* history: the callbacks made
  lines         \* history: the lines of the trace

setting == <<filter, myExtraInfo, texts, setter, arg, calls>>
report == <<count, lastBase, trace, lines>>
dialogVars == <<setting, printer, shown, report>>

DialogInit ==
  /\ filter = FALSE /\ myExtraInfo = None /\ texts = {}
  /\ setter = "idle" /\ arg = None /\ calls = 0
  /\ printer = "idle" /\ shown = None
  /\ count = 0 /\ lastBase = None /\ trace = <<>> /\ lines = <<>>

-----------------------------------------------------------------------------
(* dwstExceptionDialog(), dwstExceptionDialogW()                           *)

\* The filter is installed first.  The extra information may be NULL.
SetFilter ==
  /\ setter = "idle" /\ calls < MaxCalls
  /\ filter' = TRUE
  /\ calls' = calls + 1
  /\ arg' \in {None, calls'}
  /\ setter' = "free"
  /\ UNCHANGED <<myExtraInfo, texts, printer, shown, report>>

\* A call that leaves the old text allocated.
FreeInfoForgotten ==
  /\ setter = "free"
  /\ setter' = "assign"
  /\ UNCHANGED <<texts, filter, myExtraInfo, arg, calls, printer, shown, report>>

\* free( myExtraInfo ): the pointer goes on pointing to the old text.
FreeInfo ==
  /\ setter = "free"
  /\ texts' = texts \ {myExtraInfo}
  /\ setter' = "assign"
  /\ UNCHANGED <<filter, myExtraInfo, arg, calls, printer, shown, report>>

\* An assignment of the caller's pointer instead of a copy.
AssignPointer ==
  /\ setter = "assign"
  /\ myExtraInfo' = arg
  /\ setter' = "idle"
  /\ UNCHANGED <<filter, texts, arg, calls, printer, shown, report>>

\* The copy of the new text, or NULL if there is none or no memory for it.
Assign ==
  /\ setter = "assign"
  /\ myExtraInfo' \in {arg, None}
  /\ texts' = IF myExtraInfo' = None THEN texts ELSE texts \cup {arg}
  /\ setter' = "idle"
  /\ UNCHANGED <<filter, arg, calls, printer, shown, report>>

Set == SetFilter \/ FreeInfo \/ Assign

-----------------------------------------------------------------------------
(* exceptionPrinter()                                                      *)

\* Any thread may crash at any time once the filter is installed.
Crash ==
  /\ printer = "idle"
  /\ filter
  /\ printer' = "info"
  /\ UNCHANGED <<setting, shown, report>>

SkipInfo ==
  /\ printer = "info"
  /\ myExtraInfo = None
  /\ printer' = "trace"
  /\ UNCHANGED <<setting, shown, report>>

TestInfo ==
  /\ printer = "info"
  /\ myExtraInfo # None
  /\ printer' = "show_info"
  /\ UNCHANGED <<setting, shown, report>>

\* What the pointer, read once more, points to is copied into the dialog.
ShowInfo ==
  /\ printer = "show_info"
  /\ shown' = IF myExtraInfo \in texts \cup {None} THEN myExtraInfo ELSE Freed
  /\ printer' = "trace"
  /\ UNCHANGED <<setting, report>>

\* The dialog is shown when dwstOfExceptionW() has returned, until it is closed.
Show ==
  /\ printer = "trace"
  /\ printer' = "open"
  /\ UNCHANGED <<setting, shown, report>>

Close ==
  /\ printer = "open"
  /\ printer' = "closed"
  /\ UNCHANGED <<setting, shown, report>>

-----------------------------------------------------------------------------
(* dlgPrint()                                                              *)

Line(kind, num, cb) == [kind |-> kind, num |-> num, base |-> cb.base, name |-> cb.name, of |-> cb.of]
Emit(line) == lines' = Append(lines, line)

Callback(cb) ==
  /\ printer = "trace"
  /\ trace' = Append(trace, cb)
  /\ UNCHANGED <<setting, printer, shown>>

\* A base address is not printed again.
PrintBase(cb) ==
  /\ Callback(cb)
  /\ IF cb.base # lastBase
       THEN Emit(Line("base", None, cb)) /\ lastBase' = cb.base
       ELSE UNCHANGED <<lines, lastBase>>
  /\ UNCHANGED count

\* An address about which nothing is known gets the next number.
PrintUnknown(cb) ==
  /\ Callback(cb)
  /\ Emit(Line("stack", count, cb))
  /\ count' = count + 1
  /\ UNCHANGED lastBase

\* A line for an inlined call that takes a number as well.
PrintSourceAlwaysCounts(cb) ==
  /\ Callback(cb)
  /\ Emit(Line("stack", IF cb.addr # None THEN count ELSE None, cb))
  /\ count' = count + 1
  /\ UNCHANGED lastBase

\* A source line is numbered, and counted, if it comes with an address.
PrintSource(cb) ==
  /\ Callback(cb)
  /\ Emit(Line("stack", IF cb.addr # None THEN count ELSE None, cb))
  /\ count' = IF cb.addr # None THEN count + 1 ELSE count
  /\ UNCHANGED lastBase

-----------------------------------------------------------------------------

\* The variables' types.
TypeOK ==
  /\ filter \in BOOLEAN
  /\ myExtraInfo \in 1 .. MaxCalls \cup {None} /\ texts \subseteq 1 .. MaxCalls
  /\ setter \in {"idle", "free", "assign"} /\ arg \in 1 .. MaxCalls \cup {None}
  /\ calls \in 0 .. MaxCalls
  /\ printer \in {"idle", "info", "show_info", "trace", "open", "closed"}
  /\ shown \in 0 .. MaxCalls \cup {None}
  /\ count <= Len(lines) /\ Len(lines) <= Len(trace)

\* Between the calls the text pointed to, and no other, is allocated, and it
\* is the one given last, whatever the calls before were given.
OneTextKept ==
  /\ TypeOK
  /\ setter = "idle" =>
       /\ texts = {myExtraInfo} \ {None}
       /\ myExtraInfo \in {arg, None}

Number(of) == Cardinality({l \in DOMAIN lines : lines[l].num # None /\ lines[l].of < of})

\* Every address called back with has one number, in the order of the trace and
\* without a gap, however many lines it takes and whatever is known about it;
\* each stands below the base address of its own module, and no base address is
\* given twice in a row.
LinesInOrder ==
  /\ \A l \in DOMAIN lines : lines[l].num # None => lines[l].num = Number(lines[l].of)
  /\ \A k \in DOMAIN trace : trace[k].what # "base_addr" =>
       \E l \in DOMAIN lines : lines[l].of = trace[k].of /\ lines[l].num # None
  /\ \A l \in DOMAIN lines :
       LET bases == {m \in 1 .. l - 1 : lines[m].kind = "base"}
           above == CHOOSE m \in bases : \A o \in bases : o <= m
       IN IF lines[l].kind = "stack"
            THEN bases # {} /\ lines[above].base = lines[l].base
            ELSE bases # {} => lines[above].base # lines[l].base

=============================================================================
