------------------------------ MODULE MCService ------------------------------
(* Two threads and three connections over three descriptors and a queue of  *)
(* one: descriptors are reused, and run out while connections wait.          *)
(* Responses end in the buffer's last byte (3 halves of MAXLINE) or beyond   *)
(* it, and the cache has room for one.                                       *)
EXTENDS Service
CONSTANTS t1, t2
MCThreads == {t1, t2}
MCFds     == 5..7
MCLens    == {3, 4}
Plain     == [fields |-> 3, protocol |-> "http", port |-> 80, resource |-> "a"]
Keep(n)   == [name |-> n, value |-> "keep"]

MCRequests == {
  \* the default port of a protocol other than http; an entry the proxy changes
  \* and the client's Host, each of them twice
  [line |-> [Plain EXCEPT !.protocol = "ftp", !.port = NoPort],
   headers |-> <<Keep("Connection"), Keep("Host"), Keep("Connection"), Keep("Host"), Blank>>],
  \* an entry the proxy does not know, twice, around one it changes
  [line |-> [Plain EXCEPT !.protocol = "ftp", !.port = NoPort],
   headers |-> <<Keep("Accept"), Keep("User-Agent"), Keep("Accept"), Blank>>],
  \* the same response by a request with a malformed entry
  [line |-> Plain, headers |-> <<Keep("Accept"), Bad>>],
  \* http with its default port
  [line |-> [Plain EXCEPT !.port = NoPort], headers |-> <<Blank>>],
  \* a connection reset before its request line
  [line |-> Garbage, headers |-> <<>>]}
===============================================================================
