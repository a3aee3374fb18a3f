---------------------------- MODULE OneTimeToken ----------------------------
(***************************************************************************)
(* The one-time token plugin (plugin/onetimetoken): a short-lived token    *)
(* that whoever holds it trades once for an existing session.              *)
(*                                                                         *)
(* The verification row keeps the session's raw cookie sealed under the    *)
(* token, so a row names a session and only the bearer of the token can    *)
(* open it.  `held` is what the clients of the server know: the values of  *)
(* session cookies, tokens and the other plugins' cookies that a response  *)
(* carried to them.                                                        *)
(***************************************************************************)
EXTENDS SessionTable, FiniteSets, Sequences

CONSTANTS
    Requests,   \* concurrent HTTP requests
    Tokens      \* the one-time tokens that may be drawn

VARIABLES
    sessions,   \* the session table
    tokens,     \* the plugin's verification rows
    redeem,     \* the session that a verify request in flight has opened
    held,       \* values a client has received
    traded      \* history: how often each token was traded for a session

tokenVars == <<sessions, tokens, redeem, held, traded>>

TokenRow == [state: {"free", "stored", "gone"}, session: SessionIds \cup {None}]

TokenTypeOK ==
    /\ sessions \in SessionTables
    /\ tokens \in [Tokens -> TokenRow]
    /\ redeem \in [Requests -> SessionIds \cup {None}]
    /\ traded \in [Tokens -> Nat]

TokenInit ==
    /\ tokens = [t \in Tokens |-> [state |-> "free", session |-> None]]
    /\ redeem = [r \in Requests |-> None]
    /\ traded = [t \in Tokens |-> 0]

Live(s) == s \in SessionIds /\ sessions[s].state = "live"

\* Ids, cookies and codes come from the random source: no two draws agree, and it
\* does not matter which of the unused values is drawn.
Draw(unused) == IF unused = {} THEN {} ELSE {CHOOSE x \in unused : TRUE}

\* resumePluginSession: a missing, revoked or expired session is never attached.
ResumeSession(s) == Live(s)

\* issue: a fresh token whose row seals the session.
Issue(t, s) ==
    /\ t \in Draw({x \in Tokens : tokens[x].state = "free"})
    /\ tokens' = [tokens EXCEPT ![t] = [state |-> "stored", session |-> s]]

\* generate, and Manager.Generate in server code: the caller presents a live
\* session.  Resolving it and storing the row are two calls; a revocation between
\* them leaves the same rows as one that follows.
Generate(t) ==
    /\ \E s \in held : Live(s) /\ Issue(t, s)
    /\ held' = held \cup {t}
    /\ UNCHANGED <<sessions, redeem, traded>>

\* openSession: the row gives its session to the bearer of the token.
OpenSession(t) == tokens[t].session

\* Fault variant of ConsumeToken: the row is read and left for a later clean-up.
ConsumeTokenLater(r, t) ==
    /\ tokens[t].state = "stored"
    /\ redeem' = [redeem EXCEPT ![r] = OpenSession(t)]
    /\ traded' = [traded EXCEPT ![t] = @ + 1]
    /\ UNCHANGED <<sessions, tokens, held>>

\* verify: ConsumeOne deletes the row and returns it.
ConsumeToken(r, t) ==
    /\ tokens[t].state = "stored"
    /\ tokens' = [tokens EXCEPT ![t].state = "gone"]
    /\ redeem' = [redeem EXCEPT ![r] = OpenSession(t)]
    /\ traded' = [traded EXCEPT ![t] = @ + 1]
    /\ UNCHANGED <<sessions, held>>

\* verify, second part: the opened session is resumed and its cookie set.  The
\* header hook of this response, which would issue one more token for the same
\* session, is left out.
Verify(r) ==
    /\ redeem[r] # None
    /\ held' = IF ResumeSession(redeem[r]) THEN held \cup {redeem[r]} ELSE held
    /\ redeem' = [redeem EXCEPT ![r] = None]
    /\ UNCHANGED <<sessions, tokens, traded>>

\* ExpiresIn passes, and ConsumeOne finds the row no more.
ExpireToken(t) ==
    /\ tokens[t].state = "stored"
    /\ tokens' = [tokens EXCEPT ![t].state = "gone"]
    /\ UNCHANGED <<sessions, redeem, held, traded>>

\* docs/one-time-token.md: "Whoever holds the token can trade it **once** for the
\* user's session", also when two requests present it at once.
TokenSingleUse == \A t \in Tokens : traded[t] <= 1

=============================================================================
