-------------------------- MODULE ProvedAddresses ---------------------------
(***************************************************************************)
(* The users and the one-time tokens that were mailed to them, and what    *)
(* must hold of them whatever the handlers do.  AccountEmail models the    *)
(* handlers.                                                               *)
(***************************************************************************)

CONSTANTS Users, Tokens

VARIABLES
    config,     \* the deployment of this behaviour
    users,      \* the user table
    tokens,     \* the one-time-token rows of the verification table
    proved      \* history: <<u, e>> when a link mailed to e was followed for user u

\* An address is marked verified only for a user who followed a link mailed to
\* that very address, although a verification link names the user and not the
\* address, and consuming it and updating the user are two statements.  Where
\* UpdateEmailWithoutVerification replaces an unverified address at once, a link
\* mailed to the old address verifies the new one.
VerifiedMeansProved ==
    ~config.updateEmailWithoutVerification =>
        \A u \in Users : users[u].verified => <<u, users[u].email>> \in proved

\* A later change-email request retires the earlier one: of the change links, and
\* of the confirmation links, that a user was mailed, at most one still works,
\* also when confirmations and new requests race.
OneWorkingChangeLink ==
    \A s, t \in Tokens :
        (/\ tokens[s].state = "valid" /\ tokens[t].state = "valid"
         /\ tokens[s].user = tokens[t].user
         /\ tokens[s].purpose = tokens[t].purpose
         /\ tokens[s].purpose \in {"change", "confirm"}) => s = t

\* Under SendDeleteAccountVerification an account disappears only after its own
\* user spent a deletion link mailed for it; a link of another account, or one
\* that was presented before, deletes nothing.
DeletionProved ==
    config.sendDeleteAccountVerification =>
        \A u \in Users : users[u].state = "deleted" =>
            \E t \in Tokens : /\ tokens[t].purpose = "delete" /\ tokens[t].user = u
                              /\ tokens[t].consumed
                              /\ <<u, tokens[t].mailedTo>> \in proved

=============================================================================
