--------------------------- MODULE MCServerProcess ---------------------------
(***************************************************************************)
(* Instances of ServerProcess for TLC.                                     *)
(***************************************************************************)
EXTENDS ServerProcess

\* ConfirmUploadChunk of FileService, without the statement of validate_chunk before
\* it, and a request with one statement.
ConfirmChunk == {<<"confirm", "statement">>}
OneStatement == {<<"statement">>}
=============================================================================
