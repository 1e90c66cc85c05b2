--------------------------------- MODULE Disk ---------------------------------
(* What the file stores of the server have in common. *)
CONSTANTS
  Request,     \* the server's threads
  MISSING,     \* no file or directory
  TORN,        \* a file that does not parse
  NONE         \* no request, session, login, plugin, document or content
=============================================================================
