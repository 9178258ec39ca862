--------------------------- MODULE RefreshTokens ---------------------------
(***************************************************************************)
(* What a client meets of the server's sign-in sessions: a refresh token   *)
(* is good once, its second presentation burns the family, and a signed    *)
(* out family refuses quietly.  Session models the same code with its      *)
(* locks and statements; here a request is answered in one step.           *)
(*                                                                         *)
(* A server is a record; tokens are numbered as they are issued, and a     *)
(* family has the number of its first token.                               *)
(***************************************************************************)
EXTENDS Naturals

CONSTANT MaxTokens      \* bound on tokens issued

ASSUME RefreshTokensAssumption == MaxTokens \in Nat

NoToken == 0
Tokens == 1 .. MaxTokens
Servers == [family : [Tokens -> {NoToken} \cup Tokens], live : SUBSET Tokens,
            ended : SUBSET Tokens, burnt : SUBSET Tokens]

NewServer == [family |-> [t \in Tokens |-> NoToken], live |-> {}, ended |-> {}, burnt |-> {}]

\* The token that is issued next, if the bound admits one.
Issuable(srv) == {t \in Tokens : srv.family[t] = NoToken /\ \A u \in Tokens : u < t => srv.family[u] # NoToken}

\* startSession.
Opened(srv, n) == [srv EXCEPT !.family[n] = n, !.live = @ \cup {n}]

OfFamily(srv, f) == {t \in Tokens : srv.family[t] = f}

\* rotateSession: rotated, refused as signed out, or burnt for being presented again.
Refreshed(srv, t, n) ==
    LET f == srv.family[t] IN
    IF t \in srv.live THEN [srv EXCEPT !.family[n] = f, !.live = (@ \ {t}) \cup {n}]
    ELSE IF t \in srv.ended THEN srv
    ELSE [srv EXCEPT !.live = @ \ OfFamily(srv, f), !.burnt = @ \cup {f}]

\* revokeSessionFamily: the live token, and the rotated ones that still mint access
\* (young), are the sign-out's; an older one stays a rotated one.
SignedOut(srv, f, young) ==
    LET theirs == IF young THEN OfFamily(srv, f) ELSE OfFamily(srv, f) \cap srv.live IN
    [srv EXCEPT !.live = @ \ OfFamily(srv, f), !.ended = @ \cup theirs]
=============================================================================
