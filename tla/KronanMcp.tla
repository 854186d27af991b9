------------------------------ MODULE KronanMcp ------------------------------
(***************************************************************************)
(* Three parts of kronan-mcp that share no state: the store in which it    *)
(* keeps a user's token (SecretStore, where the token is one value of      *)
(* many), the process that serves calls with it (KronanServer, where the   *)
(* store is a variable and the record of orders a step), and that record,  *)
(* which all processes share (OrderAttempts).                              *)
(***************************************************************************)
EXTENDS SecretStore

CONSTANTS Request, User, owner, NoToken,  \* of KronanServer; Request is its Call
          Call, Tool, Consuming, tool, Token, token, Contents, Unread, Cli, Nobody \* of OrderAttempts

VARIABLES serving, input, stdout, stop, saved, step, kind, loaded, sentAs, fate, reply

VARIABLES attempts, old, holder, stage, copy, print, outcome, told, cli, shown, guarded, before

Server == INSTANCE KronanServer
    WITH Call <- Request, None <- NoToken, pc <- step, answer <- reply

Orders == INSTANCE OrderAttempts WITH record <- attempts, pc <- stage, answer <- told

ASSUME OrdersAssumption == Orders!CallAssumption

-----------------------------------------------------------------------------
(* The properties of KronanServer, stated there                            *)

\* A plain failure was not and will not be carried out, and what a call says was
\* done was done (api.rs, write_as and place).
AnswersAreTrue == Server!AnswersAreTrue

\* A charge is sent only for the user whose checkout was approved (place).
ChargedAsVerified == Server!ChargedAsVerified

\* Once close returned, no operation sends, waits or records (Client::close).
NothingAfterClose == Server!NothingAfterClose

\* Once stdin ends, the connection breaks or a signal comes, the process exits
\* (serve_stdio).
ServerStops == Server!ServerStops

\* Answers are true, and after close there is nothing left to be answered.
TrueWhileOpen == AnswersAreTrue /\ NothingAfterClose

-----------------------------------------------------------------------------
(* The properties of OrderAttempts, stated there                           *)

\* One approval sends at most one request for the same contents (claim_attempt).
AtMostOnce == Orders!AtMostOnce

\* What was sent stays on record until it is cleared or retired (write_attempts,
\* clear_attempts).
AttemptsAreKept == Orders!AttemptsAreKept
=============================================================================
