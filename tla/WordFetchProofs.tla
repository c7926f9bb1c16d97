--------------------------- MODULE WordFetchProofs ---------------------------
(***************************************************************************)
(* Proofs that HttpRequest_Req keeps g_recvIdx inside g_recvBuf, releases *)
(* its socket and addrinfo on every exit, and that the sentence MainTask   *)
(* copies fits ScreenData, for every set of replies and read sizes.        *)
(***************************************************************************)
EXTENDS WordFetch, TLAPS

(* What HttpRequest_Req holds at each point of ReqWord_Requset: the      *)
(* addrinfo list from getaddrinfo until connect, the socket from socket() *)
(* until the close after the read loop.                                  *)
Holding ==
  /\ pc \in {"idle", "dns", "parse", "copyWord", "copySentence"}
       => ~resHeld /\ ~sockOpen
  /\ pc = "socket" => resHeld /\ ~sockOpen
  /\ pc = "connect" => resHeld /\ sockOpen
  /\ pc \in {"write", "setopt", "read", "end"} => ~resHeld /\ sockOpen

(* The lengths stay within the buffers that hold them. *)
Bounded ==
  /\ recvIdx <= MAX_REC_BUFFER_SIZE - 1
  /\ recvLen <= MAX_BUFFER_SIZE - 1
  /\ sentLen <= SENTENCE_SIZE - 1
  /\ scrSentLen <= SENTENCE_SIZE - 1

(* TypeOK in three parts, which the provers handle one at a time. *)
PcOK == pc \in {"idle", "dns", "socket", "connect", "write", "setopt", "read",
                "end", "parse", "copyWord", "copySentence"}
NatOK == /\ recvIdx \in Nat /\ recvLen \in Nat /\ wordLen \in Nat
         /\ sentLen \in Nat /\ scrWordLen \in Nat /\ scrSentLen \in Nat
BoolOK == /\ resHeld \in BOOLEAN /\ sockOpen \in BOOLEAN
          /\ wordFresh \in BOOLEAN /\ sentFresh \in BOOLEAN

FetchInv == PcOK /\ reply \in Replies /\ NatOK /\ BoolOK /\ Holding /\ Bounded

LEMMA TypeSplit == TypeOK <=> PcOK /\ reply \in Replies /\ NatOK /\ BoolOK
  BY Zenon DEF TypeOK, PcOK, NatOK, BoolOK

LEMMA ReplyFields ==
  ASSUME NEW r \in Replies
  PROVE  /\ r.hdr \in Nat /\ r.word \in Nat /\ r.spaces \in Nat
         /\ r.sent \in Nat
         /\ r.sep \in BOOLEAN /\ r.colon \in BOOLEAN /\ r.closes \in BOOLEAN
  BY ReplyAssumption DEF Reply

(* The sentence ParseResponse keeps is at most cap bytes long. *)
LEMMA SentenceLenBound ==
  ASSUME NEW r \in Replies, NEW k \in Nat, NEW cap \in Nat
  PROVE  SentenceLen(r, k, cap) \in Nat /\ SentenceLen(r, k, cap) <= cap
<1>1. r.hdr \in Nat /\ r.word \in Nat /\ r.spaces \in Nat
  BY ReplyFields
<1>2. QED
  BY <1>1 DEF SentenceLen, Min

LEMMA FetchInvInit == Init => FetchInv
<1> SUFFICES ASSUME Init PROVE FetchInv
  OBVIOUS
<1>1. PcOK /\ reply \in Replies
  BY DEF Init, PcOK
<1>2. NatOK /\ Bounded
  BY DEF Init, NatOK, Bounded, MAX_REC_BUFFER_SIZE, MAX_BUFFER_SIZE,
         SENTENCE_SIZE
<1>3. BoolOK /\ Holding
  BY Zenon DEF Init, BoolOK, Holding
<1>4. QED
  BY <1>1, <1>2, <1>3 DEF FetchInv

(* The steps of the connection, which move pc and the two handles only.  *)
LEMMA ConnStep ==
  ASSUME FetchInv, Dns \/ Socket \/ Connect \/ Write
  PROVE  FetchInv'
<1> USE DEF FetchInv
<1>1. PcOK' /\ reply' \in Replies
  BY DEF Dns, Socket, Connect, Write, Fail, PcOK
<1>2. NatOK' /\ Bounded'
  BY DEF Dns, Socket, Connect, Write, Fail, NatOK, Bounded
<1>3. BoolOK'
  BY Zenon DEF Dns, Socket, Connect, Write, Fail, BoolOK
<1>4. Holding'
  BY DEF Dns, Socket, Connect, Write, Fail, Holding
<1>5. QED
  BY <1>1, <1>2, <1>3, <1>4

LEMMA FetchInvStep == FetchInv /\ [Next]_vars => FetchInv'
<1> SUFFICES ASSUME FetchInv, [Next]_vars PROVE FetchInv'
  OBVIOUS
<1> USE DEF FetchInv
<1>1. CASE Request
  <2>1. PcOK' /\ reply' \in Replies /\ NatOK' /\ Bounded'
    BY <1>1 DEF Request, PcOK, NatOK, Bounded
  <2>2. BoolOK' /\ Holding'
    BY <1>1, Zenon DEF Request, BoolOK, Holding
  <2>3. QED
    BY <2>1, <2>2
<1>2. CASE Dns \/ Socket \/ Connect \/ Write
  BY <1>2, ConnStep
<1>3. CASE SetOpt
  <2>1. PcOK' /\ reply' \in Replies /\ NatOK' /\ Bounded'
    BY <1>3 DEF SetOpt, Fail, PcOK, NatOK, Bounded, MAX_REC_BUFFER_SIZE
  <2>2. BoolOK'
    BY <1>3, Zenon DEF SetOpt, Fail, BoolOK
  <2>3. Holding'
    <3>1. CASE pc' = "idle" /\ sockOpen' = FALSE /\ UNCHANGED resHeld
      BY <3>1, <1>3 DEF SetOpt, Holding
    <3>2. CASE pc' = "read" /\ UNCHANGED <<resHeld, sockOpen>>
      BY <3>2, <1>3 DEF SetOpt, Holding
    <3>3. QED
      BY <1>3, <3>1, <3>2 DEF SetOpt, Fail
  <2>4. QED
    BY <2>1, <2>2, <2>3
<1>4. CASE Read
  <2>1. reply.hdr \in Nat /\ reply.word \in Nat /\ reply.spaces \in Nat
        /\ reply.sent \in Nat
    BY ReplyFields
  <2>2. ReplyLen(reply) \in Nat
    BY <2>1 DEF ReplyLen
  <2>3. recvIdx' \in Nat /\ recvIdx' <= MAX_REC_BUFFER_SIZE - 1
    <3>1. CASE \E c \in ReadSizes :
                 LET r == Min(c, Min(MAX_REC_BUFFER_SIZE - recvIdx - 1,
                                     ReplyLen(reply) - recvIdx))
                 IN r > 0 /\ recvIdx' = recvIdx + r
      <4>1. PICK c \in ReadSizes :
                 LET r == Min(c, Min(MAX_REC_BUFFER_SIZE - recvIdx - 1,
                                     ReplyLen(reply) - recvIdx))
                 IN r > 0 /\ recvIdx' = recvIdx + r
        BY <3>1
      <4>2. c \in Nat
        BY ReplyAssumption
      <4>3. QED
        BY <4>1, <4>2, <2>2 DEF Min, NatOK, Bounded, MAX_REC_BUFFER_SIZE
    <3>2. CASE UNCHANGED recvIdx
      BY <3>2 DEF NatOK, Bounded
    <3>3. QED
      BY <1>4, <3>1, <3>2 DEF Read, ReadWith
  <2>4. pc' \in {"read", "end"} /\ pc = "read"
    BY <1>4 DEF Read, ReadWith
  <2>5. UNCHANGED <<reply, resHeld, sockOpen, recvLen, wordLen, sentLen,
                    wordFresh, sentFresh, scrWordLen, scrSentLen>>
    BY <1>4 DEF Read, ReadWith
  <2>6. PcOK' /\ reply' \in Replies
    BY <2>4, <2>5 DEF PcOK
  <2>7. NatOK' /\ Bounded'
    BY <2>3, <2>5 DEF NatOK, Bounded
  <2>8. BoolOK' /\ Holding'
    BY <2>4, <2>5, Zenon DEF BoolOK, Holding
  <2>9. QED
    BY <2>6, <2>7, <2>8
<1>5. CASE ReadEnd
  <2>1. PcOK' /\ reply' \in Replies /\ NatOK' /\ Bounded'
    BY <1>5 DEF ReadEnd, PcOK, NatOK, Bounded, MAX_REC_BUFFER_SIZE,
                MAX_BUFFER_SIZE
  <2>2. BoolOK' /\ Holding'
    BY <1>5, Zenon DEF ReadEnd, BoolOK, Holding
  <2>3. QED
    BY <2>1, <2>2
<1>6. CASE Parse
  <2>1. reply.word \in Nat
    BY ReplyFields
  <2>2. SentenceLen(reply, recvLen, SENTENCE_SIZE - 1) \in Nat
        /\ SentenceLen(reply, recvLen, SENTENCE_SIZE - 1) <= SENTENCE_SIZE - 1
    <3>1. recvLen \in Nat /\ SENTENCE_SIZE - 1 \in Nat
      BY DEF NatOK, SENTENCE_SIZE
    <3>2. QED
      BY <3>1, SentenceLenBound
  <2>3. wordLen' \in Nat /\ sentLen' \in Nat /\ sentLen' <= SENTENCE_SIZE - 1
    BY <1>6, <2>1, <2>2 DEF Parse, ParseWith, GetWordCopies, NatOK, Bounded
  <2>4. wordFresh' \in BOOLEAN /\ sentFresh' \in BOOLEAN
    BY <1>6 DEF Parse, ParseWith, BoolOK
  <2>5. pc' = "copyWord" /\ recvLen' = 0
        /\ UNCHANGED <<reply, resHeld, sockOpen, recvIdx, scrWordLen,
                       scrSentLen>>
    BY <1>6 DEF Parse, ParseWith
  <2>6. PcOK' /\ reply' \in Replies /\ NatOK' /\ Bounded'
    BY <2>3, <2>5 DEF PcOK, NatOK, Bounded, MAX_BUFFER_SIZE
  <2>7. BoolOK' /\ Holding'
    <3>1. pc = "parse"
      BY <1>6 DEF Parse, ParseWith
    <3>2. QED
      BY <2>4, <2>5, <3>1, Zenon DEF BoolOK, Holding
  <2>8. QED
    BY <2>6, <2>7
<1>7. CASE CopyWord \/ CopySentence
  <2>1. PcOK' /\ reply' \in Replies /\ NatOK' /\ Bounded'
    BY <1>7 DEF CopyWord, CopySentence, PcOK, NatOK, Bounded
  <2>2. BoolOK' /\ Holding'
    BY <1>7 DEF CopyWord, CopySentence, BoolOK, Holding
  <2>3. QED
    BY <2>1, <2>2
<1>8. CASE UNCHANGED vars
  <2>1. PcOK' /\ reply' \in Replies /\ NatOK' /\ Bounded'
    BY <1>8 DEF vars, PcOK, NatOK, Bounded
  <2>2. BoolOK' /\ Holding'
    BY <1>8, Zenon DEF vars, BoolOK, Holding
  <2>3. QED
    BY <2>1, <2>2
<1>9. QED
  BY <1>1, <1>2, <1>3, <1>4, <1>5, <1>6, <1>7, <1>8 DEF Next, FetchStep

(* Every state a run of ReqWord_Requset reaches is well typed. *)
THEOREM FetchTypeOK == Spec => []TypeOK
<1>1. FetchInv => TypeOK
  BY TypeSplit DEF FetchInv
<1>2. QED
  BY FetchInvInit, FetchInvStep, <1>1, PTL DEF Spec

(* HttpRequest_Req's terminator write g_recvBuf[g_recvIdx] = '\0' stays  *)
(* inside g_recvBuf, and the copy HttpRequest_GetWord makes fits           *)
(* s_reqBodyBuf, however the server's reply is split over reads and cut by *)
(* the receive timeout.                                                    *)
THEOREM RecvInBounds == Spec => []RecvTerminatorInBounds
<1>1. FetchInv => RecvTerminatorInBounds
  BY DEF FetchInv, Bounded, RecvTerminatorInBounds
<1>2. QED
  BY FetchInvInit, FetchInvStep, <1>1, PTL DEF Spec

(* Every exit of HttpRequest_Req, each failure path included, has released *)
(* the socket and the addrinfo list by the time MainTask is back in its    *)
(* loop or parsing the reply.                                              *)
THEOREM FetchReleases == Spec => []ResourcesReleased
<1>1. FetchInv => ResourcesReleased
  BY DEF FetchInv, Holding, ResourcesReleased
<1>2. QED
  BY FetchInvInit, FetchInvStep, <1>1, PTL DEF Spec

(* The sentence MainTask copies with ReqWord_GetSentence, NUL included,   *)
(* fits s_wordData.sentence[256], whatever the server sends.              *)
THEOREM SentenceFits == Spec => []SentenceFitsScreen
<1>1. FetchInv => SentenceFitsScreen
  BY DEF FetchInv, Bounded, NatOK, SentenceFitsScreen, SCREEN_SENTENCE_SIZE,
         SENTENCE_SIZE
<1>2. QED
  BY FetchInvInit, FetchInvStep, <1>1, PTL DEF Spec

=====
