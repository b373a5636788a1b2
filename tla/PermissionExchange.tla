-------------------------- MODULE PermissionExchange --------------------------
(***************************************************************************)
(* What the permission relay promises Claude and the user: Claude's calls  *)
(* are asked, the user speaks to each at most once, and every yes of the   *)
(* user lets at most one call of its kind proceed.  A call proceeds        *)
(* without a yes of its own only if its tool was allowed for good, or if   *)
(* it is a question, which may be passed back unanswered.  The exchange    *)
(* does not say which call a yes is spent on: see AnswersMatch in          *)
(* PermissionRelay.                                                        *)
(***************************************************************************)
EXTENDS Naturals, Sequences

CONSTANTS Kinds, Tools, InitiallyAllowed

VARIABLES
  calls,    \* the calls so far: a sequence of [kind, tool]
  said,     \* what the user has said to each: "nothing", "yes", "always", "no"
  verdict,  \* "open", "allowed", "denied" or "lost"
  spent,    \* the calls whose yes has let a call proceed
  allowed   \* the tools that need no yes

vars == <<calls, said, verdict, spent, allowed>>

Init ==
  /\ calls = <<>> /\ said = <<>> /\ verdict = <<>>
  /\ spent = {} /\ allowed = InitiallyAllowed

\* A call is open, or it is settled at once: refused, or allowed for good.
Ask(kind, tool, v) ==
  /\ v = "allowed" => kind = "permission" /\ tool \in allowed
  /\ calls' = Append(calls, [kind |-> kind, tool |-> tool])
  /\ said' = Append(said, "nothing")
  /\ verdict' = Append(verdict, v)
  /\ UNCHANGED <<spent, allowed>>

Speak(c, word) ==
  /\ said[c] = "nothing"
  /\ said' = [said EXCEPT ![c] = word]
  /\ UNCHANGED <<calls, verdict, spent, allowed>>

Settle(c, v) ==
  /\ verdict[c] = "open"
  /\ verdict' = [verdict EXCEPT ![c] = v]
  /\ UNCHANGED <<calls, said>>

\* A yes to some call of this kind, not used so far, lets call c proceed; an
\* "always" to a permission also allows the tool of c from now on.
Spend(c, a) ==
  /\ Settle(c, "allowed")
  /\ said[a] \in {"yes", "always"} /\ a \notin spent
  /\ calls[a].kind = calls[c].kind
  /\ spent' = spent \cup {a}
  /\ allowed' = IF said[a] = "always" /\ calls[c].kind = "permission"
                THEN allowed \cup {calls[c].tool} ELSE allowed

\* A question goes back without an answer, or with a refusal of the user.
PassBack(c) ==
  /\ Settle(c, "allowed") /\ calls[c].kind = "question"
  /\ UNCHANGED <<spent, allowed>>

Deny(c) == Settle(c, "denied") /\ UNCHANGED <<spent, allowed>>

\* Claude has gone, and with it the tools the user has allowed.
Forget ==
  /\ verdict' = [c \in DOMAIN verdict |->
                   IF verdict[c] = "open" THEN "lost" ELSE verdict[c]]
  /\ allowed' = InitiallyAllowed
  /\ UNCHANGED <<calls, said, spent>>

Next ==
  \/ \E kind \in Kinds, tool \in Tools, v \in {"open", "allowed", "denied"} :
       Ask(kind, tool, v)
  \/ \E c \in DOMAIN calls :
       \/ \E word \in {"yes", "always", "no"} : Speak(c, word)
       \/ \E a \in DOMAIN calls : Spend(c, a)
       \/ PassBack(c) \/ Deny(c)
  \/ Forget

Spec == Init /\ [][Next]_vars
=============================================================================
