------------------------------ MODULE WordFetch ------------------------------
(***************************************************************************)
(* The word request as MainTask runs it, with byte lengths:                *)
(*   - HttpRequest_Req (src/components/http_request/http_req.c): DNS,      *)
(*     socket, connect, write, SO_RCVTIMEO, then a read loop that appends  *)
(*     to g_recvBuf[2048] until EOF, an error or timeout, or a full buffer; *)
(*   - HttpRequest_GetWord, ReqWord_ParseResponse and ReqWord_Requset      *)
(*     (src/components/req_word/req_word.c): copy the reply, split its     *)
(*     body at the first colon into word[128] and sentence[256];           *)
(*   - ReqWord_GetWord / GetSentence into ScreenData.word[100] and          *)
(*     sentence[256] (src/main/task.c, Task_MainTask).                      *)
(*                                                                         *)
(* Only MainTask runs this path, so its steps are sequential; the tasks   *)
(* around it are TaskCoord's.  A string is its length: the server's reply *)
(* is a record of the lengths of its parts (Reply), and a prefix of it is  *)
(* the number of bytes received.  The reply holds no NUL byte, so strlen   *)
(* of a received prefix is its length.  The ghost flags wordFresh and      *)
(* sentFresh record whether this request wrote word[] and sentence[].      *)
(***************************************************************************)
EXTENDS Naturals

CONSTANTS
  Replies,    \* the replies the server can send (records, see Reply)
  ReadSizes   \* byte counts a read() can return when data is waiting

(* The buffer sizes of http_req.c, req_word.c and ScreenData. *)
MAX_REC_BUFFER_SIZE == 2048
MAX_BUFFER_SIZE == 2048
WORD_SIZE == 128
SENTENCE_SIZE == 256
SCREEN_WORD_SIZE == 100
SCREEN_SENTENCE_SIZE == 256

(* A reply: hdr bytes of status line and headers, ending with the blank    *)
(* line "\r\n\r\n" when sep holds; then word bytes with no colon; then, when *)
(* colon holds, ':' followed by spaces blanks and sent bytes of sentence.  *)
(* closes: the server closes the connection after the reply.               *)
Reply ==
  [sep : BOOLEAN, hdr : Nat, word : Nat, colon : BOOLEAN, spaces : Nat,
   sent : Nat, closes : BOOLEAN]

ReplyLen(r) == r.hdr + r.word + (IF r.colon THEN 1 + r.spaces + r.sent ELSE 0)

ASSUME ReplyAssumption ==
  /\ Replies \subseteq Reply /\ Replies # {}
  /\ ReadSizes \subseteq Nat \ {0} /\ ReadSizes # {}

Min(a, b) == IF a <= b THEN a ELSE b

(* ReqWord_ParseResponse on the first k bytes of reply r. *)
BodyFound(r, k) == r.sep /\ k >= r.hdr
ColonFound(r, k) == BodyFound(r, k) /\ r.colon /\ k >= r.hdr + r.word + 1
(* The sentence after the leading blanks the strncpy sees, cut at 255. *)
SentenceLen(r, k, cap) ==
  LET after == k - (r.hdr + r.word + 1) IN
    IF after > r.spaces THEN Min(after - r.spaces, cap) ELSE 0

VARIABLES
  pc,          \* where MainTask is in ReqWord_Requset
  reply,       \* the reply of the server this request talks to
  resHeld,     \* the getaddrinfo result res is allocated
  sockOpen,    \* the socket s is open
  recvIdx,     \* g_recvIdx, bytes of the reply read so far
  recvLen,     \* strlen(g_recvBuf)
  wordLen,     \* strlen(word), req_word.c
  sentLen,     \* strlen(sentence), req_word.c
  wordFresh,   \* word[] was written by this request
  sentFresh,   \* sentence[] was written by this request
  scrWordLen,  \* strlen(s_wordData.word)
  scrSentLen   \* strlen(s_wordData.sentence)

vars == <<pc, reply, resHeld, sockOpen, recvIdx, recvLen, wordLen, sentLen,
          wordFresh, sentFresh, scrWordLen, scrSentLen>>

Init ==
  /\ pc = "idle"
  /\ reply \in Replies
  /\ resHeld = FALSE /\ sockOpen = FALSE
  /\ recvIdx = 0 /\ recvLen = 0
  /\ wordLen = 0 /\ sentLen = 0
  /\ wordFresh = FALSE /\ sentFresh = FALSE
  /\ scrWordLen = 0 /\ scrSentLen = 0

-----------------------------------------------------------------------------
(* MainTask sees s_isWordRequest and calls ReqWord_Requset, which calls   *)
(* HttpRequest_Req; the server will answer with some reply.                *)
Request ==
  /\ pc = "idle"
  /\ pc' = "dns"
  /\ reply' \in Replies
  /\ wordFresh' = FALSE /\ sentFresh' = FALSE
  /\ UNCHANGED <<resHeld, sockOpen, recvIdx, recvLen, wordLen, sentLen,
                 scrWordLen, scrSentLen>>

(* Each step of HttpRequest_Req succeeds, or fails: the function releases *)
(* what it holds, returns false, and MainTask clears s_isWordRequest.     *)
Fail(released) ==
  /\ pc' = "idle"
  /\ UNCHANGED <<reply, recvIdx, recvLen, wordLen, sentLen, wordFresh,
                 sentFresh, scrWordLen, scrSentLen>>
  /\ released

(* getaddrinfo. *)
Dns ==
  /\ pc = "dns"
  /\ \/ Fail(UNCHANGED <<resHeld, sockOpen>>)
     \/ /\ resHeld' = TRUE /\ pc' = "socket"
        /\ UNCHANGED <<reply, sockOpen, recvIdx, recvLen, wordLen, sentLen,
                       wordFresh, sentFresh, scrWordLen, scrSentLen>>

(* socket(): on failure freeaddrinfo(res). *)
Socket ==
  /\ pc = "socket"
  /\ \/ Fail(resHeld' = FALSE /\ UNCHANGED sockOpen)
     \/ /\ sockOpen' = TRUE /\ pc' = "connect"
        /\ UNCHANGED <<reply, resHeld, recvIdx, recvLen, wordLen, sentLen,
                       wordFresh, sentFresh, scrWordLen, scrSentLen>>

(* connect(): on failure close(s) and freeaddrinfo(res); on success      *)
(* freeaddrinfo(res).                                                     *)
Connect ==
  /\ pc = "connect"
  /\ \/ Fail(resHeld' = FALSE /\ sockOpen' = FALSE)
     \/ /\ resHeld' = FALSE /\ pc' = "write"
        /\ UNCHANGED <<reply, sockOpen, recvIdx, recvLen, wordLen, sentLen,
                       wordFresh, sentFresh, scrWordLen, scrSentLen>>

(* Mutant: the write failure returns without close(s). *)
WriteNoClose ==
  /\ pc = "write"
  /\ \/ Fail(UNCHANGED <<resHeld, sockOpen>>)
     \/ /\ pc' = "setopt"
        /\ UNCHANGED <<reply, resHeld, sockOpen, recvIdx, recvLen, wordLen,
                       sentLen, wordFresh, sentFresh, scrWordLen, scrSentLen>>

(* write() of the GET request: on failure close(s). *)
Write ==
  /\ pc = "write"
  /\ \/ Fail(sockOpen' = FALSE /\ UNCHANGED resHeld)
     \/ /\ pc' = "setopt"
        /\ UNCHANGED <<reply, resHeld, sockOpen, recvIdx, recvLen, wordLen,
                       sentLen, wordFresh, sentFresh, scrWordLen, scrSentLen>>

(* setsockopt(SO_RCVTIMEO, 5 s): on failure close(s); then g_recvIdx = 0. *)
SetOpt ==
  /\ pc = "setopt"
  /\ \/ Fail(sockOpen' = FALSE /\ UNCHANGED resHeld)
     \/ /\ recvIdx' = 0 /\ pc' = "read"
        /\ UNCHANGED <<reply, resHeld, sockOpen, recvLen, wordLen, sentLen,
                       wordFresh, sentFresh, scrWordLen, scrSentLen>>

(* One read() of at most sizeof(g_recvBuf) - g_recvIdx - 1 bytes: data    *)
(* (then the loop breaks when the buffer is full), 0 once the server has  *)
(* sent all and closed, or -1 when the 5 s receive timeout expires or the *)
(* connection fails, which can happen at any point of the reply.          *)
ReadWith(room) ==
  /\ pc = "read"
  /\ LET left == ReplyLen(reply) - recvIdx IN
       \/ \E c \in ReadSizes :
            LET r == Min(c, Min(room, left)) IN
              /\ r > 0
              /\ recvIdx' = recvIdx + r
              /\ pc' = IF recvIdx + r >= MAX_REC_BUFFER_SIZE - 1
                         THEN "end" ELSE "read"
       \/ left = 0 /\ reply.closes /\ pc' = "end" /\ UNCHANGED recvIdx
       \/ pc' = "end" /\ UNCHANGED recvIdx
  /\ UNCHANGED <<reply, resHeld, sockOpen, recvLen, wordLen, sentLen,
                 wordFresh, sentFresh, scrWordLen, scrSentLen>>

(* Mutant: the size argument without the byte kept for the terminator. *)
ReadNoReserve == ReadWith(MAX_REC_BUFFER_SIZE - recvIdx)

(* Mutant: SO_RCVTIMEO never set, so read() waits (a step that changes   *)
(* nothing) for as long as the server is silent and keeps the connection *)
(* open.                                                                  *)
ReadNoTimeout ==
  /\ pc = "read"
  /\ LET left == ReplyLen(reply) - recvIdx IN
       \/ \E c \in ReadSizes :
            LET r == Min(c, Min(MAX_REC_BUFFER_SIZE - recvIdx - 1, left)) IN
              /\ r > 0
              /\ recvIdx' = recvIdx + r
              /\ pc' = IF recvIdx + r >= MAX_REC_BUFFER_SIZE - 1
                         THEN "end" ELSE "read"
       \/ left = 0 /\ reply.closes /\ pc' = "end" /\ UNCHANGED recvIdx
       \/ left = 0 /\ ~reply.closes /\ UNCHANGED <<pc, recvIdx>>
  /\ UNCHANGED <<reply, resHeld, sockOpen, recvLen, wordLen, sentLen,
                 wordFresh, sentFresh, scrWordLen, scrSentLen>>

Read == ReadWith(MAX_REC_BUFFER_SIZE - recvIdx - 1)

(* g_recvBuf[g_recvIdx] = '\0', close(s), return true. *)
ReadEnd ==
  /\ pc = "end"
  /\ recvLen' = recvIdx
  /\ sockOpen' = FALSE
  /\ pc' = "parse"
  /\ UNCHANGED <<reply, resHeld, recvIdx, wordLen, sentLen, wordFresh,
                 sentFresh, scrWordLen, scrSentLen>>

(* HttpRequest_GetWord's copy of g_recvBuf into s_reqBodyBuf succeeds:   *)
(* strlen(g_recvBuf) is below the destination's size.                     *)
GetWordCopies == recvLen < MAX_BUFFER_SIZE

(* ReqWord_ParseResponse, with the sentence cut at sentCap bytes. *)
ParseWith(sentCap) ==
  /\ pc = "parse"
  /\ GetWordCopies
  /\ LET k == recvLen IN
       IF ColonFound(reply, k)
         THEN /\ wordFresh' = TRUE
              /\ IF reply.word >= WORD_SIZE
                   THEN wordLen' = 0 /\ UNCHANGED <<sentLen, sentFresh>>
                   ELSE /\ wordLen' = reply.word
                        /\ sentLen' = SentenceLen(reply, k, sentCap)
                        /\ sentFresh' = TRUE
         ELSE UNCHANGED <<wordLen, sentLen, wordFresh, sentFresh>>
  /\ recvLen' = 0
  /\ pc' = "copyWord"
  /\ UNCHANGED <<reply, resHeld, sockOpen, recvIdx, scrWordLen, scrSentLen>>

(* Mutant: the sentence copied with strncpy(..., sizeof(sentence)) and no *)
(* terminator written, so a long sentence fills all 256 bytes.            *)
ParseNoTerminator == ParseWith(SENTENCE_SIZE)

(* The rest of ReqWord_Requset: HttpRequest_GetWord copies g_recvBuf into *)
(* s_reqBodyBuf (its len >= buf_size exit cannot be taken: the read loop  *)
(* keeps strlen below 2048) and clears g_recvBuf; ReqWord_ParseResponse   *)
(* finds the body and the colon, or returns leaving word and sentence as  *)
(* they were; a word of 128 bytes or more clears word and returns; then   *)
(* ReqWord_Requset returns true whatever the parse found.                 *)
Parse == ParseWith(SENTENCE_SIZE - 1)

(* ReqWord_GetWord(s_wordData.word): strlen(word) bytes and a NUL. *)
CopyWord ==
  /\ pc = "copyWord"
  /\ scrWordLen' = wordLen
  /\ pc' = "copySentence"
  /\ UNCHANGED <<reply, resHeld, sockOpen, recvIdx, recvLen, wordLen,
                 sentLen, wordFresh, sentFresh, scrSentLen>>

(* ReqWord_GetSentence(s_wordData.sentence); MainTask then clears        *)
(* s_isWordRequest.                                                       *)
CopySentence ==
  /\ pc = "copySentence"
  /\ scrSentLen' = sentLen
  /\ pc' = "idle"
  /\ UNCHANGED <<reply, resHeld, sockOpen, recvIdx, recvLen, wordLen,
                 sentLen, wordFresh, sentFresh, scrWordLen>>

(* The steps of a request once started; each blocking call returns: DNS *)
(* and connect by lwIP's own timeouts, read by SO_RCVTIMEO.              *)
FetchStep == Dns \/ Socket \/ Connect \/ Write \/ SetOpt \/ Read \/ ReadEnd
             \/ Parse \/ CopyWord \/ CopySentence

Next == Request \/ FetchStep

(* MainTask is always runnable again after its 50 ms delay; a word       *)
(* request is raised by TimerTask only, so Request is not fair.          *)
Spec == Init /\ [][Next]_vars /\ WF_vars(FetchStep)

-----------------------------------------------------------------------------
TypeOK ==
  /\ pc \in {"idle", "dns", "socket", "connect", "write", "setopt", "read",
             "end", "parse", "copyWord", "copySentence"}
  /\ reply \in Replies
  /\ resHeld \in BOOLEAN /\ sockOpen \in BOOLEAN
  /\ recvIdx \in Nat /\ recvLen \in Nat
  /\ wordLen \in Nat /\ sentLen \in Nat
  /\ wordFresh \in BOOLEAN /\ sentFresh \in BOOLEAN
  /\ scrWordLen \in Nat /\ scrSentLen \in Nat

(* The read loop of HttpRequest_Req never runs past g_recvBuf: however    *)
(* the reply is split over reads and cut by the timeout, g_recvIdx stays  *)
(* below 2048, so the terminator g_recvBuf[g_recvIdx] = '\0' is in bounds *)
(* and HttpRequest_GetWord's copy fits s_reqBodyBuf.                      *)
RecvTerminatorInBounds ==
  /\ recvIdx <= MAX_REC_BUFFER_SIZE - 1
  /\ recvLen <= MAX_BUFFER_SIZE - 1

(* Every exit of HttpRequest_Req, each failure path included, has        *)
(* released what it acquired: no socket stays open and no addrinfo list   *)
(* stays allocated once the request has returned, so a device that fails  *)
(* once a minute for hours does not run out of lwIP sockets.              *)
ResourcesReleased ==
  pc \in {"idle", "parse", "copyWord", "copySentence"} =>
    ~resHeld /\ ~sockOpen

(* The sentence MainTask copies with ReqWord_GetSentence, NUL included,   *)
(* fits s_wordData.sentence[256], whatever the reply: ParseResponse keeps *)
(* at most 255 bytes and terminates them.                                 *)
SentenceFitsScreen == scrSentLen + 1 <= SCREEN_SENTENCE_SIZE

(* Spec, External Interfaces: on success the word-fetch service exposes a *)
(* word of at most 99 characters.  ReqWord_GetWord copies strlen(word)    *)
(* bytes and a NUL into s_wordData.word[100]; ParseResponse accepts words *)
(* of up to 127 bytes.                                                    *)
WordFitsScreen == scrWordLen + 1 <= SCREEN_WORD_SIZE

(* Spec, External Interfaces: the service returns success or failure, and *)
(* on success exposes the word and the sentence of the server's reply.    *)
(* When ReqWord_Requset has returned true, word[] and sentence[] hold the *)
(* reply's word and its sentence (cut at 255 bytes).  ReqWord_Requset     *)
(* returns true whatever ParseResponse found.                             *)
ReplyParsedOnSuccess ==
  pc = "copyWord" =>
    /\ wordFresh /\ sentFresh
    /\ wordLen = reply.word
    /\ sentLen = Min(reply.sent, SENTENCE_SIZE - 1)

(* Every word request MainTask starts returns: each blocking call of     *)
(* HttpRequest_Req ends, the read loop by the receive timeout when the    *)
(* server neither sends nor closes.                                       *)
RequestReturns == pc # "idle" ~> pc = "idle"
=============================================================================
