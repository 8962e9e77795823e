------------------------------- MODULE Tokens -------------------------------
(***************************************************************************)
(* What a client may rely on who shows a token of its main connection to   *)
(* the file thread.  A token is valid from its grant until it is withdrawn *)
(* and never again, and a connection ends only after its token was         *)
(* withdrawn.  A check takes time: it accepts only what was valid at some  *)
(* time while it lasted, and unless the valid tokens changed meanwhile it  *)
(* refuses only what was not.                                              *)
(***************************************************************************)
CONSTANTS Token, NoToken

VARIABLES valid,   \* tokens that are granted and not withdrawn
          used,    \* tokens that were ever granted
          over,    \* tokens of connections that have ended
          step,    \* "idle", "asked", "checking", "accepted", "refused"
          asked,   \* the token that is shown
          past     \* what the valid tokens have been while the check lasted

vars == <<valid, used, over, step, asked, past>>

Init ==
  /\ valid = {} /\ used = {} /\ over = {}
  /\ step = "idle" /\ asked = NoToken /\ past = {}

Noted == past' = IF step = "checking" THEN past \cup {valid'} ELSE past

Grant(t) ==
  /\ t \notin used \cup over
  /\ valid' = valid \cup {t} /\ used' = used \cup {t}
  /\ Noted
  /\ UNCHANGED <<over, step, asked>>

Withdraw(t) ==
  /\ t \in valid
  /\ valid' = valid \ {t}
  /\ Noted
  /\ UNCHANGED <<used, over, step, asked>>

End(t) ==
  /\ t \notin valid \cup over
  /\ over' = over \cup {t}
  /\ UNCHANGED <<valid, used, step, asked, past>>

Ask(t) ==
  /\ step = "idle"
  /\ step' = "asked" /\ asked' = t
  /\ UNCHANGED <<valid, used, over, past>>

Begin ==
  /\ step = "asked"
  /\ step' = "checking" /\ past' = {valid}
  /\ UNCHANGED <<valid, used, over, asked>>

Answer ==
  /\ step = "checking"
  /\ \/ step' = "accepted" /\ \E tokens \in past : asked \in tokens
     \/ step' = "refused" /\ (asked \notin valid \/ past # {valid})
  /\ UNCHANGED <<valid, used, over, asked, past>>

Done ==
  /\ step \in {"accepted", "refused"}
  /\ step' = "idle" /\ asked' = NoToken /\ past' = {}
  /\ UNCHANGED <<valid, used, over>>

Next == \/ \E t \in Token : Grant(t) \/ Withdraw(t) \/ End(t) \/ Ask(t)
        \/ Begin \/ Answer \/ Done

Spec == Init /\ [][Next]_vars
=============================================================================
