---------------------------- MODULE TokenLedger ----------------------------
(***************************************************************************)
(* What auth-service promises about refresh tokens, with the database      *)
(* traffic left out.  A token belongs to one user for ever; a login mints  *)
(* one; a presentation of a token is accepted only while the token is not  *)
(* revoked; an accepted rotation mints exactly one successor, for the same *)
(* user, before the token it consumes is revoked in one atomic step; an    *)
(* accepted logout only revokes; nothing is ever un-revoked.               *)
(*                                                                         *)
(* RefreshTokens implements this module although its revocations are a     *)
(* SELECT and an UPDATE with other requests between them.                  *)
(***************************************************************************)
EXTENDS Naturals, Sequences

CONSTANTS
    User,       \* account ids
    Request     \* HTTP requests, each used once

VARIABLES
    owner,      \* owner[i]: the user of token i; tokens are numbered from 1
    revoked,    \* the set of revoked tokens
    phase,      \* phase[r]: how far request r has come
    claim,      \* claim[r]: the token r presented, 0 before that
    minted      \* minted[r]: the token r created, 0 before that

ledgerVars == <<owner, revoked, phase, claim, minted>>

Phase == {"new", "login", "rotating", "ending", "minted", "spent", "closed"}

LedgerInit ==
    /\ owner = <<>>
    /\ revoked = {}
    /\ phase = [r \in Request |-> "new"]
    /\ claim = [r \in Request |-> 0]
    /\ minted = [r \in Request |-> 0]

\* The credentials of a login are accepted.
Admit(r) ==
    /\ phase[r] = "new"
    /\ phase' = [phase EXCEPT ![r] = "login"]
    /\ UNCHANGED <<owner, revoked, claim, minted>>

\* A token is minted for a user u.
Mint(r, u) ==
    /\ owner' = Append(owner, u)
    /\ minted' = [minted EXCEPT ![r] = Len(owner) + 1]
    /\ phase' = [phase EXCEPT ![r] = "minted"]
    /\ UNCHANGED <<revoked, claim>>

MintForLogin(r, u) == phase[r] = "login" /\ Mint(r, u)

MintSuccessor(r) == phase[r] = "rotating" /\ Mint(r, owner[claim[r]])

\* A live token is presented, for rotation or for logout.
Accept(r, t, p) ==
    /\ phase[r] = "new"
    /\ t \in 1..Len(owner) /\ t \notin revoked
    /\ p \in {"rotating", "ending"}
    /\ phase' = [phase EXCEPT ![r] = p]
    /\ claim' = [claim EXCEPT ![r] = t]
    /\ UNCHANGED <<owner, revoked, minted>>

\* The presented token is revoked: for a rotation only after its successor
\* exists, for a logout at once.
Spend(r) ==
    /\ phase[r] \in {"minted", "ending"}
    /\ claim[r] # 0
    /\ revoked' = revoked \cup {claim[r]}
    /\ phase' = [phase EXCEPT ![r] = "spent"]
    /\ UNCHANGED <<owner, claim, minted>>

\* The request ends, answered or not.
Close(r) ==
    /\ phase[r] # "closed"
    /\ phase' = [phase EXCEPT ![r] = "closed"]
    /\ UNCHANGED <<owner, revoked, claim, minted>>

LedgerNext ==
    \E r \in Request :
        \/ Admit(r)
        \/ \E u \in User : MintForLogin(r, u)
        \/ MintSuccessor(r)
        \/ \E t \in 1..Len(owner), p \in {"rotating", "ending"} : Accept(r, t, p)
        \/ Spend(r)
        \/ Close(r)

LedgerSpec == LedgerInit /\ [][LedgerNext]_ledgerVars
=============================================================================
