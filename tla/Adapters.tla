----------------------------- MODULE Adapters -----------------------------
(***************************************************************************)
(* How the four adapters turn what an interpreter does in one thread into  *)
(* calls of the recorder's two hooks: pyllprof (PyEval_SetProfile and the  *)
(* functions begin_profile and end_profile), rrprof (Ruby's event hooks),  *)
(* the PHP module (a wrapper around zend_execute) and the Lua module       *)
(* (lua_sethook).                                                          *)
(*                                                                         *)
(* The recorder is its cursor: the names from the root to the current      *)
(* node.  What the hooks record is in CallTree.  An adapter is loaded      *)
(* while functions are running whose calls it did not see, and functions   *)
(* may be left without a return: by a Lua error, by a PHP bailout, and in  *)
(* Python with a section still open.                                       *)
(***************************************************************************)
EXTENDS Integers, Sequences, SequencesExt

CONSTANTS
  Functions,   \* what the program calls
  Section,     \* the name given to begin_profile
  Top,         \* the root of the call tree
  MaxDepth,    \* bound: functions running at once
  MaxOpen,     \* bound: open sections
  MaxPath      \* bound: nodes above the cursor, which may only go deeper

ASSUME AdaptersConstants ==
  /\ Section \notin Functions /\ Top \notin Functions \cup {Section}
  /\ {MaxDepth, MaxOpen, MaxPath} \subseteq Nat

VARIABLES
  adapter,    \* which of the four
  startup,    \* LLPROF_STARTUP
  loaded,     \* the adapter is loaded
  stack,      \* the functions running
  counter,    \* *counter of pyllprof; -1 before it is allocated
  path,       \* the cursor, from the root on
  original,   \* what _zend_execute is: "zend", or "hp" for hp_execute itself
  astray      \* history: something was left without a return

vars == <<adapter, startup, loaded, stack, counter, path, original, astray>>

\* A function running: whether its call was seen, the sections begun in it or,
\* in Lua, the functions it was replaced by in tail calls, and whether it ran
\* when the adapter was loaded, is the one that loads it, or never starts.
Frame(seen, more, where) == [seen |-> seen, more |-> more, where |-> where]

-----------------------------------------------------------------------------
(* The recorder's hooks.                                                   *)

CallHook(p, n) == Append(p, n)

\* MUTANT: the return from the root is not skipped.
ReturnHook_Root(p) == Front(p)

ReturnHook(p) == IF Len(p) = 1 THEN p ELSE Front(p)

Returned(p, times) == LET q[i \in 0 .. times] == IF i = 0 THEN p ELSE ReturnHook(q[i - 1])
                      IN  q[times]

-----------------------------------------------------------------------------
(* What an adapter sees.                                                   *)

\* MUTANT: the call of a function is reported whether a section is open or not.
Traced_Always == counter # -1

\* pyllprof_tracefunc is installed by the first begin_profile and does nothing
\* while the counter is 0.
Traced == counter > 0

\* hp_execute: the main script has no name, and is executed without the hooks.
Named(frame) == frame.seen # << >>

Sees == adapter # "python" \/ Traced

\* MUTANT: the exception is reported besides.
PythonReturns_Twice(unwinding) == IF ~Traced THEN 0 ELSE IF unwinding THEN 2 ELSE 1

\* A profile function of Python gets PyTrace_RETURN for a return and for an
\* exception that leaves the function, and never PyTrace_EXCEPTION.
PythonReturns(unwinding) == IF Traced THEN 1 ELSE 0

\* Ruby's hooks are called for both as well.
RubyReturns == 1

\* A bailout of PHP does not come back to hp_execute.
PhpReturns(frame, unwinding) == IF unwinding \/ ~Named(frame) THEN 0 ELSE 1

\* Nor has Lua a hook for errors; for every tail call there is a LUA_HOOKTAILRET.
LuaReturns(frame, unwinding) == IF unwinding THEN 0 ELSE 1 + Len(frame.more)

\* How often the return hook runs when a function ends, by a return or because
\* an exception, error or bailout goes through it.
Returns(frame, unwinding) ==
  CASE adapter = "python" -> PythonReturns(unwinding)
    [] adapter = "ruby"   -> RubyReturns
    [] adapter = "php"    -> PhpReturns(frame, unwinding)
    [] adapter = "lua"    -> LuaReturns(frame, unwinding)

\* Left without a return hook for each of its nodes; the one section begun by
\* LLPROF_STARTUP ends with the function that loaded the adapter.
Strays(frame, unwinding) ==
  CASE adapter = "python" -> frame.more # << >> /\ ~(frame.where = "loader" /\ frame.more = <<Section>>)
    [] adapter = "ruby"   -> FALSE
    [] OTHER              -> unwinding /\ frame.seen \o frame.more # << >>

-----------------------------------------------------------------------------
Init ==
  /\ adapter \in {"python", "ruby", "php", "lua"}
  /\ startup \in BOOLEAN /\ (startup => adapter = "python")
  /\ loaded = FALSE
  /\ \E outer \in 1 .. MaxDepth :
       stack = [i \in 1 .. outer |-> Frame(<< >>, << >>, IF i = outer THEN "loader" ELSE "outer")]
  /\ counter = -1 /\ path = <<Top>> /\ original = "zend" /\ astray = FALSE

Opened == [stack EXCEPT ![Len(stack)].more = Append(@, Section)]

\* pyllprof_c_begin_profile.
Section0 == IF counter = -1 THEN 1 ELSE counter + 1

\* LLPROF_STARTUP begins a section that ends with the return of the function
\* that loads the module.
Startup == counter' = Section0 /\ path' = CallHook(path, Section) /\ stack' = Opened

\* _zend_execute = zend_execute, which may have been replaced before.
Saved(replaced) == IF replaced THEN "hp" ELSE "zend"

Loaded == ~loaded /\ loaded' = TRUE /\ UNCHANGED <<adapter, startup, astray>>
Unmoved == UNCHANGED <<counter, path, stack>>

InitPyllprof ==
  /\ adapter = "python" /\ Loaded
  /\ IF startup THEN Startup ELSE Unmoved
  /\ UNCHANGED original

InitRrprof == adapter = "ruby" /\ Loaded /\ Unmoved /\ UNCHANGED original

Minit == adapter = "php" /\ Loaded /\ Unmoved /\ original' = Saved(FALSE)

Luaopen == adapter = "lua" /\ Loaded /\ Unmoved /\ UNCHANGED original

Load == InitPyllprof \/ InitRrprof \/ Minit \/ Luaopen

\* With hp_execute as the original, the function itself is never reached.
Place == IF original = "hp" THEN "endless" ELSE "inner"

Endless == Last(stack).where = "endless"

\* The function helloworld of the PHP module initialises it once more.
Helloworld ==
  /\ loaded /\ adapter = "php" /\ ~Endless
  /\ original' = Saved(TRUE)
  /\ UNCHANGED <<adapter, startup, loaded, stack, counter, path, astray>>

Call(f) ==
  /\ loaded /\ ~Endless
  /\ Len(stack) < MaxDepth /\ Len(path) < MaxPath
  /\ IF Sees
     THEN path' = CallHook(path, f) /\ stack' = Append(stack, Frame(<<f>>, << >>, Place))
     ELSE path' = path /\ stack' = Append(stack, Frame(<< >>, << >>, Place))
  /\ UNCHANGED <<adapter, startup, loaded, counter, original, astray>>

\* hp_execute calls hp_execute, for the same function.
CallForEver ==
  /\ loaded /\ Endless
  /\ Len(stack) < MaxDepth /\ Len(path) < MaxPath
  /\ path' = CallHook(path, Last(path))
  /\ stack' = Append(stack, Last(stack))
  /\ UNCHANGED <<adapter, startup, loaded, counter, original, astray>>

TailCall(f) ==
  /\ loaded /\ adapter = "lua" /\ Last(stack).where = "inner"
  /\ Len(Last(stack).more) < MaxOpen /\ Len(path) < MaxPath
  /\ path' = CallHook(path, f)
  /\ stack' = [stack EXCEPT ![Len(stack)].more = Append(@, f)]
  /\ UNCHANGED <<adapter, startup, loaded, counter, original, astray>>

\* The innermost function returns, or an exception or error leaves it.
End(unwinding) ==
  /\ loaded /\ ~Endless /\ Len(stack) > 1
  /\ path' = Returned(path, Returns(Last(stack), unwinding))
  /\ astray' = (astray \/ Strays(Last(stack), unwinding))
  /\ stack' = Front(stack)
  /\ UNCHANGED <<adapter, startup, loaded, counter, original>>

BeginProfile ==
  /\ loaded /\ adapter = "python"
  /\ counter < MaxOpen /\ Len(Last(stack).more) < MaxOpen /\ Len(path) < MaxPath
  /\ counter' = Section0
  /\ path' = CallHook(path, Section)
  /\ stack' = Opened
  /\ UNCHANGED <<adapter, startup, loaded, original, astray>>

\* The assertions of end_profile ask for an open section, in whatever function.
EndProfile ==
  /\ loaded /\ adapter = "python" /\ counter > 0
  /\ counter' = counter - 1
  /\ path' = ReturnHook(path)
  /\ LET mine == Last(stack).more IN
     IF mine = << >> THEN astray' = TRUE /\ UNCHANGED stack
     ELSE /\ stack' = [stack EXCEPT ![Len(stack)].more = Front(mine)]
          /\ UNCHANGED astray
  /\ UNCHANGED <<adapter, startup, loaded, original>>

Next ==
  \/ Load \/ Helloworld \/ CallForEver \/ BeginProfile \/ EndProfile
  \/ \E f \in Functions : Call(f) \/ TailCall(f)
  \/ \E unwinding \in BOOLEAN : End(unwinding)

Spec == Init /\ [][Next]_vars

-----------------------------------------------------------------------------
(* Properties.                                                             *)

Recorded == FlattenSeq([i \in DOMAIN stack |-> stack[i].seen \o stack[i].more])

\* Whatever is left without a return, the cursor stays in the tree; and as long
\* as nothing was, it is where the program is: below the root are exactly the functions running whose calls
\* were seen and the open sections, in order (tracefunc, hp_execute and hooks).
PathIsStack ==
  /\ path # << >> /\ Head(path) = Top
  /\ ~astray => path = <<Top>> \o Recorded

\* A return the recorder ignores at the root is the return of a function that
\* ran before the adapter was loaded, as the comment on llprof_return_handler
\* has it for Ruby's require.
SkippedAreOuter ==
  [][\A unwinding \in BOOLEAN :
       End(unwinding) /\ ~astray' /\ path = <<Top>> /\ Returns(Last(stack), unwinding) > 0
         => Last(stack).where # "inner"]_vars
=============================================================================
