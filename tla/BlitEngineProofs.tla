--------------------------- MODULE BlitEngineProofs --------------------------
(***************************************************************************)
(* Proofs about the panel blit engine: its type invariant, for any set of *)
(* callers and with allocations failing.  The two-caller safety of        *)
(* refresh_finish is not a theorem: it fails, and TLC's runs show how.     *)
(***************************************************************************)
EXTENDS BlitEngine, TLAPS

(* A caller in the segment loop has a segment left: DrawImageData and     *)
(* FillBackground enter the loop only with rows >= 1, and TakeDone leaves *)
(* it after the last one.                                                 *)
RowsLeft == \A c \in Clients : pc[c] \in {"draw", "take", "wait"} => rows[c] >= 1

TypeInv == TypeOK /\ RowsLeft

-----------------------------------------------------------------------------
USE BlitAssumption

PcSet == {"idle", "alloc", "create", "draw", "take", "wait", "free", "delete"}
BufSet == {"none", "live", "null"}
Transfer == [owner : Clients, src : BufSet]

LEMMA TypeInvInit == Init => TypeInv
  BY DEF Init, TypeInv, TypeOK, RowsLeft

LEMMA TypeInvStep == TypeInv /\ [Next]_vars => TypeInv'
<1> SUFFICES ASSUME TypeInv, [Next]_vars PROVE TypeInv'
  OBVIOUS
<1> USE DEF TypeInv, TypeOK, RowsLeft
<1>1. ASSUME NEW c \in Clients, Start(c) PROVE TypeInv'
  <2>1. CASE c = "fill"
    <3>1. PICK s \in CreateResult :
            /\ refresh' = s
            /\ live' = live \cup ({s} \ {NULL})
            /\ given' = IF s = NULL THEN given ELSE [given EXCEPT ![s] = FALSE]
            /\ pc' = [pc EXCEPT ![c] = IF s = NULL THEN "idle" ELSE "alloc"]
            /\ UNCHANGED <<buf, rows, queue, waitOn>>
      BY <1>1, <2>1 DEF Start
    <3>2. s \in SemIds \cup {NULL}
      BY DEF CreateResult
    <3>3. QED
      BY <1>1, <3>1, <3>2 DEF Start
  <2>2. CASE c # "fill"
    <3>1. PICK g \in {"noglyph"} \cup AllocResult :
            /\ buf' = [buf EXCEPT ![c] = IF g = "live" THEN "live" ELSE "null"]
            /\ rows' = [rows EXCEPT ![c] = IF g = "noglyph" THEN 0 ELSE GLYPH_ROWS]
            /\ pc' = [pc EXCEPT ![c] = "create"]
            /\ UNCHANGED <<refresh, live, given, queue, waitOn>>
      BY <1>1, <2>2 DEF Start
    <3>2. QED
      BY <1>1, <3>1
  <2>3. QED
    BY <2>1, <2>2
<1>2. ASSUME NEW c \in Clients, FillAlloc(c) PROVE TypeInv'
  BY <1>2 DEF FillAlloc, DeleteRefresh, AllocResult
<1>3. ASSUME NEW c \in Clients, GlyphCreate(c) PROVE TypeInv'
  BY <1>3 DEF GlyphCreate, CreateResult
<1>4. ASSUME NEW c \in Clients, Draw(c) PROVE TypeInv'
  <2>1. [owner |-> c, src |-> buf[c]] \in Transfer
    BY DEF Transfer, BufSet
  <2>2. queue' \in Seq(Transfer)
    BY <1>4, <2>1 DEF Draw, Transfer, BufSet
  <2>3. QED
    BY <1>4, <2>2 DEF Draw, Transfer, BufSet
<1>5. ASSUME NEW c \in Clients, TakeCall(c) PROVE TypeInv'
  BY <1>5 DEF TakeCall
<1>6. ASSUME NEW c \in Clients, TakeDone(c) PROVE TypeInv'
  BY <1>6 DEF TakeDone
<1>7. ASSUME NEW c \in Clients, Free(c) PROVE TypeInv'
  BY <1>7 DEF Free
<1>8. ASSUME NEW c \in Clients, Delete(c) PROVE TypeInv'
  BY <1>8 DEF Delete, DeleteRefresh
<1>9. CASE Complete
  BY <1>9 DEF Complete
<1>10. CASE UNCHANGED vars
  BY <1>10 DEF vars
<1>11. QED
  BY <1>1, <1>2, <1>3, <1>4, <1>5, <1>6, <1>7, <1>8, <1>9, <1>10
  DEF Next, Caller

(* Every step of the blit engine keeps its type, for any set of callers. *)
THEOREM BlitTypeOK == Spec => []TypeOK
<1>1. TypeInv => TypeOK
  BY DEF TypeInv
<1>2. QED
  BY TypeInvInit, TypeInvStep, <1>1, PTL DEF Spec
=============================================================================
