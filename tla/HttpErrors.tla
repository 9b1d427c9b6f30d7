----------------------------- MODULE HttpErrors -----------------------------
(***************************************************************************)
(* HttpExceptionFilter of @aurora/common: what a client is told of an      *)
(* exception.  Nest's HttpExceptions and other objects with a numeric      *)
(* status keep theirs; whatever else is thrown, a failed query included,   *)
(* is a 500 that says nothing.  A list of messages, as the ValidationPipe  *)
(* throws it, gives way to the exception's own message.                    *)
(***************************************************************************)
EXTENDS Naturals

HttpException(status, message) == [class |-> "http", status |-> status, message |-> message]

\* An exception without a status: TypeORM's QueryFailedError, a lost connection.
PlainException(message) == [class |-> "plain", status |-> 0, message |-> message]

MessageList == "list of messages"

AnswerTo(e) ==
    [status  |-> IF e.class = "plain" THEN 500 ELSE e.status,
     message |-> CASE e.class = "plain"         -> "Internal server error"
                   [] e.message = MessageList   -> "Bad Request Exception"
                   [] OTHER                     -> e.message]
=============================================================================
