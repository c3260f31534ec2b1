----------------------------- MODULE EventLoop ------------------------------
(* EventLoop::wait_next_event (src/util/eventloop.cc): the rules of a        *)
(* program, each on one direction of a file descriptor, of which one is      *)
(* served in each call.  The callbacks of the rules belong to the program    *)
(* that adds them: they read and change a state that the module is given.    *)
(* poll() lies between SetUp and PollPass, and so does whatever the rest of  *)
(* the world does between the answer of poll() and the callback.             *)
(* The rules are numbered in the order in which they are added; as they are  *)
(* only ever erased, the list of those that are left is a set of numbers.    *)
EXTENDS Integers

CONSTANTS
  Direction(_),     \* "In" or "Out", of a rule
  Interest(_, _),   \* whether a rule wants to be served, in a state
  AtEof(_, _),      \* whether its descriptor has reached end of file,
  IsClosed(_, _),   \*   or was closed by the program
  OnCancel(_, _),   \* the state after its cancel callback
  OnError(_, _)     \* the state after its error callback

None == 0           \* no rule: rules are counted from 1
MaxRules == 4       \* bound: no program of the repository adds more
-----------------------------------------------------------------------------
(* Before poll: rules whose descriptor is done are cancelled and erased, and *)
(* those that are interested ask for an event.  The others are polled too,   *)
(* for errors and hangups.  Each callback sees what those before it did.     *)

Done(state, rule) ==
  (Direction(rule) = "In" /\ AtEof(state, rule)) \/ IsClosed(state, rule)

SetUpRule(at, rule) ==
  IF rule \notin at.rules THEN at
  ELSE IF Done(at.state, rule)
       THEN [at EXCEPT !.state = OnCancel(@, rule), !.rules = @ \ {rule}]
       ELSE [at EXCEPT !.events = IF Interest(at.state, rule) THEN @ \cup {rule} ELSE @]

\* Nothing to poll for: the result is Exit.
SetUp(state, rules) ==
  LET start == [state |-> state, rules |-> rules, events |-> {}]
  IN  SetUpRule(SetUpRule(SetUpRule(SetUpRule(start, 1), 2), 3), MaxRules)

\* poll() returns when there is an event that was asked for, or an error or a
\* hangup, at some descriptor.
Reported(rule, events, conditions) ==
  conditions \cap ({"HUP", "ERR"}
                     \cup (IF rule \notin events THEN {}
                           ELSE IF Direction(rule) = "In" THEN {"IN"} ELSE {"OUT"}))
-----------------------------------------------------------------------------
(* After poll: the results are gone through up to the first rule that can be *)
(* served.  revents is what poll() reported for each rule.                   *)

Ready(revents) == revents \cap {"IN", "OUT"} # {}

\* A hangup makes a descriptor useless for a rule that could not be served
\* although it was interested, and for any rule that writes.
Defunct(rule, events, revents) ==
  /\ "HUP" \in revents
  /\ Direction(rule) = "Out" \/ (rule \in events /\ ~Ready(revents))

PassRule(at, rule, events, revents) ==
  IF rule \notin at.rules \/ at.served # None THEN at
  ELSE IF "ERR" \in revents[rule]
       THEN [at EXCEPT !.state = OnCancel(OnError(@, rule), rule), !.rules = @ \ {rule}]
  ELSE IF Defunct(rule, events, revents[rule])
       THEN [at EXCEPT !.state = OnCancel(@, rule), !.rules = @ \ {rule}]
  ELSE [at EXCEPT !.served = IF Ready(revents[rule]) THEN rule ELSE None]

\* The state before the callback, the rules that are left, and the one whose
\* callback is called.
PollPass(state, rules, events, revents) ==
  LET start == [state |-> state, rules |-> rules, served |-> None]
      Pass(at, rule) == PassRule(at, rule, events, revents)
  IN  Pass(Pass(Pass(Pass(start, 1), 2), 3), MaxRules)

\* A callback that neither read nor wrote and is still interested would be
\* called for ever: wait_next_event throws.
BusyWait(state, rule, serviced) ==
  ~serviced /\ ~IsClosed(state, rule) /\ Interest(state, rule)
=============================================================================
