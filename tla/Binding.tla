------------------------------ MODULE Binding -------------------------------
(***************************************************************************)
(* Parameters and arguments (bindParams of internal/eval/eval_expr.go).    *)
(* A call has posn positional arguments, 1 .. posn, and keyword arguments   *)
(* for the names in kws; a parameter is [name, kind].  The loop takes the   *)
(* parameters in order.  A value is described by where it comes from.       *)
(***************************************************************************)
EXTENDS Naturals, Sequences, FiniteSets

CONSTANTS Names, MaxParams, MaxArgs

ASSUME BindingAssumption == MaxParams \in Nat /\ MaxArgs \in Nat

VARIABLES params, posn, kws,   \* the call
          par,                   \* the parameter the loop is at
          pos, used,           \* arguments taken so far, usedKwargs
          env,                 \* what the parameters are bound to
          binding

bindVars == <<params, posn, kws, par, pos, used, env, binding>>

\* Parameter lists the language means: distinct names, at most one parameter
\* that collects the rest of the arguments, and one last for keywords.
Param == [name : Names, kind : {"plain", "default", "rest", "keywords"}]
Signatures ==
  {ps \in UNION {[1 .. n -> Param] : n \in 0 .. MaxParams} :
     /\ \A a, b \in DOMAIN ps : a # b => ps[a].name # ps[b].name
     /\ \A a, b \in DOMAIN ps : ps[a].kind = "rest" /\ ps[b].kind = "rest" => a = b
     /\ \A a \in DOMAIN ps : ps[a].kind = "keywords" => a = Len(ps)}

BindInit ==
  /\ params \in Signatures /\ posn \in 0 .. MaxArgs /\ kws \in SUBSET Names
  /\ par = 1 /\ pos = 0 /\ used = {} /\ env = <<>> /\ binding = "bind"

Par == params[par]
AtParam == binding = "bind" /\ par <= Len(params)

Bind(what) == env' = Append(env, [name |-> Par.name, to |-> what]) /\ par' = par + 1
Call == <<params, posn, kws>>

\* The positional arguments no parameter has taken.
Rest == (pos + 1) .. posn

BindRest ==
  /\ AtParam /\ Par.kind = "rest"
  /\ Bind([args |-> Rest, kw |-> {}, default |-> FALSE])
  /\ pos' = posn
  /\ UNCHANGED <<Call, used, binding>>

BindKeywords ==
  /\ AtParam /\ Par.kind = "keywords"
  /\ Bind([args |-> {}, kw |-> kws \ used, default |-> FALSE])
  /\ used' = used \cup kws
  /\ UNCHANGED <<Call, pos, binding>>

\* Mutant: a keyword wins over the argument at its position.
FilledTwiceNever == FALSE
FilledTwice == pos < posn /\ Par.name \in kws

\* Both a positional and a keyword argument: an exception.
Duplicate ==
  /\ AtParam /\ Par.kind \in {"plain", "default"} /\ FilledTwice
  /\ binding' = "raised" /\ UNCHANGED <<Call, par, pos, used, env>>

BindKeyword ==
  /\ AtParam /\ Par.kind \in {"plain", "default"} /\ ~FilledTwice /\ Par.name \in kws
  /\ Bind([args |-> {}, kw |-> {Par.name}, default |-> FALSE])
  /\ used' = used \cup {Par.name}
  /\ UNCHANGED <<Call, pos, binding>>

BindPositional ==
  /\ AtParam /\ Par.kind \in {"plain", "default"} /\ ~FilledTwice /\ Par.name \notin kws
  /\ pos < posn
  /\ Bind([args |-> {pos + 1}, kw |-> {}, default |-> FALSE])
  /\ pos' = pos + 1
  /\ UNCHANGED <<Call, used, binding>>

Unfilled == AtParam /\ Par.kind \in {"plain", "default"} /\ Par.name \notin kws /\ pos >= posn

BindDefault ==
  /\ Unfilled /\ Par.kind = "default"
  /\ Bind([args |-> {}, kw |-> {}, default |-> TRUE])
  /\ UNCHANGED <<Call, pos, used, binding>>

\* An argument is missing: an error that is not an exception of the program.
Missing ==
  /\ Unfilled /\ Par.kind = "plain"
  /\ binding' = "failed" /\ UNCHANGED <<Call, par, pos, used, env>>

\* The parameters are over; arguments left over raise.  Keywords are not looked
\* at: one that names no parameter is dropped.
Finish ==
  /\ binding = "bind" /\ par > Len(params)
  /\ binding' = IF pos < posn THEN "raised" ELSE "bound"
  /\ UNCHANGED <<Call, par, pos, used, env>>

BindNext == \/ BindRest \/ BindKeywords \/ Duplicate \/ BindKeyword \/ BindPositional
        \/ BindDefault \/ Missing \/ Finish
BindSpec == BindInit /\ [][BindNext]_bindVars

-----------------------------------------------------------------------------
Answered == binding \in {"bound", "raised", "failed"}

\* Python's rule for the calls that bind, given the names of the keyword arguments:
\* the arguments fill the parameters before the rest from the left, there is
\* room for all of them, no filled parameter is named again, every other
\* parameter is named or has a default, and every keyword is known.
Plain(a) == params[a].kind \in {"plain", "default"}
Seats == {a \in DOMAIN params :
            Plain(a) /\ \A b \in 1 .. a : params[b].kind # "rest"}
Rank(a) == Cardinality({b \in Seats : b <= a})
Filled == {a \in Seats : Rank(a) <= posn}
Known(w) == \E a \in DOMAIN params :
              params[a].kind = "keywords" \/ (Plain(a) /\ params[a].name = w)
Binds(names) ==
  /\ Cardinality(Seats) >= posn \/ \E a \in DOMAIN params : params[a].kind = "rest"
  /\ \A a \in DOMAIN params : Plain(a) =>
       IF a \in Filled THEN params[a].name \notin names
       ELSE params[a].kind = "default" \/ params[a].name \in names
  /\ \A w \in names : Known(w)

\* What Python then gives parameter a.
Gets(a) ==
  [args    |-> IF params[a].kind = "rest" THEN Cardinality(Seats) + 1 .. posn
               ELSE IF a \in Filled THEN {Rank(a)} ELSE {},
   kw      |-> IF params[a].kind = "keywords"
               THEN {w \in kws : \A b \in DOMAIN params : Plain(b) => params[b].name # w}
               ELSE IF Plain(a) THEN {params[a].name} \cap kws ELSE {},
   default |-> Plain(a) /\ a \notin Filled /\ params[a].name \notin kws]

\* The keywords that are not: Python refuses the call, this code drops them.
Stray == {w \in kws : ~Known(w)}

\* The calls that succeed are those Python would bind without their stray
\* keywords, and every parameter gets what Python gives it: its argument by
\* position or by name, the rest, the keywords nobody takes, or its default.
BindsAsPython ==
  Answered =>
    /\ (binding = "bound") = Binds(kws \ Stray)
    /\ binding = "bound" =>
         env = [a \in DOMAIN params |-> [name |-> params[a].name, to |-> Gets(a)]]
=============================================================================
