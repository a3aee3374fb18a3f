--------------------------- MODULE MCAccountEmail ---------------------------
(* Instances of AccountEmail for TLC. *)
EXTENDS AccountEmail, TLC

CONSTANTS alice, bob, e1, e2, t1, t2, t3, r1, r2

MCUsers == {alice, bob}
MCEmails == {e1, e2}
MCTokens == {t1, t2, t3}
MCRequests == {r1, r2}

\* Changes are confirmed by the old inbox first.
Confirmed ==
    [endpoints |-> {"sign-up", "send-verification", "verify", "change-email"},
     sendOnSignUp |-> TRUE, sendChangeEmailConfirmation |-> TRUE,
     updateEmailWithoutVerification |-> FALSE, sendDeleteAccountVerification |-> FALSE]

\* An unverified address is replaced at once.
Immediate ==
    [endpoints |-> {"sign-up", "verify", "change-email"},
     sendOnSignUp |-> TRUE, sendChangeEmailConfirmation |-> FALSE,
     updateEmailWithoutVerification |-> TRUE, sendDeleteAccountVerification |-> FALSE]

\* Deletion is proved by mail.
MailedDeletion ==
    [endpoints |-> {"sign-up", "verify", "delete", "delete-token"},
     sendOnSignUp |-> FALSE, sendChangeEmailConfirmation |-> FALSE,
     updateEmailWithoutVerification |-> FALSE, sendDeleteAccountVerification |-> TRUE]

MCConfigs == {Confirmed, Immediate, MailedDeletion}

\* The members of each set are interchangeable.
Symmetry == Permutations(Users) \cup Permutations(Emails)
            \cup Permutations(Tokens) \cup Permutations(Requests)

=============================================================================
