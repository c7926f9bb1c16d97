---------------------------- MODULE MC_WordFetch ----------------------------
(* Instantiates WordFetch for TLC with replies of the shapes the word      *)
(* server and the network can produce, at the edges of every buffer.       *)
EXTENDS WordFetch

(* A reply with the word server's usual 120-byte header. *)
R(w, c, sp, s, cl) ==
  [sep |-> TRUE, hdr |-> 120, word |-> w, colon |-> c, spaces |-> sp,
   sent |-> s, closes |-> cl]

MC_Replies ==
  { R(6, TRUE, 1, 40, TRUE),     \* "apple: An apple a day ..."
    R(6, TRUE, 1, 40, FALSE),    \* the same, connection kept open
    R(99, TRUE, 0, 10, TRUE),    \* the longest word the screen holds
    R(100, TRUE, 0, 10, TRUE),   \* one byte more
    R(130, TRUE, 1, 10, TRUE),   \* longer than word[128]
    R(9, FALSE, 0, 0, TRUE),     \* an error page: no colon in the body
    R(6, TRUE, 2, 300, TRUE),    \* a sentence longer than sentence[256]
    [sep |-> FALSE, hdr |-> 30, word |-> 0, colon |-> FALSE, spaces |-> 0,
     sent |-> 0, closes |-> TRUE],                        \* no blank line
    [sep |-> TRUE, hdr |-> 1900, word |-> 6, colon |-> TRUE, spaces |-> 1,
     sent |-> 300, closes |-> TRUE] }                     \* over 2047 bytes

(* A small TCP segment and a full Ethernet one. *)
MC_ReadSizes == {64, 1460}
=============================================================================
