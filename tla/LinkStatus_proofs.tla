--------------------------- MODULE LinkStatus_proofs ---------------------------
(***************************************************************************)
(* Facts about the link check that the proofs of both loops rest on: each  *)
(* of its operations keeps the types of the variables it shares, the       *)
(* copies of the link state in step, and the waiting tasks informed.       *)
(***************************************************************************)
EXTENDS LinkStatus, TLAPS

\* Setting link bits leaves the watchers' calls well-formed.
LEMMA SetBitsTyped ==
    ASSUME LinkTypeOK, NEW b \in SUBSET Events, SetBits(b)
    PROVE  /\ bits' \subseteq Events
           /\ watch' \in [Watchers -> [pc : {"idle", "blocked", "returned"},
                                       want : Wants \cup {{}}, got : SUBSET Events]]
  BY DEF LinkTypeOK, SetBits

\* A step of the link check keeps the types of the link's variables.
LEMMA CheckTyped == LinkTypeOK /\ CheckLink => LinkTypeOK'
<1> SUFFICES ASSUME LinkTypeOK, CheckLink PROVE LinkTypeOK'
  OBVIOUS
<1>1. CASE SetNewBit
  <2>1. SetBits({IF seen THEN "LINK_UP" ELSE "LINK_DOWN"})
    BY <1>1 DEF SetNewBit
  <2>2. {IF seen THEN "LINK_UP" ELSE "LINK_DOWN"} \in SUBSET Events
    BY DEF Events
  <2>3. QED
    BY <1>1, <2>1, <2>2, SetBitsTyped DEF SetNewBit, At, LinkTypeOK, CheckPcs
<1>2. CASE ReadLink \/ ReadLinkFails \/ SetNetifLink \/ SaveStatus
  BY <1>2 DEF ReadLink, ReadLinkFails, SetNetifLink, SaveStatus, At, LinkTypeOK, CheckPcs
<1>3. CASE ClearOldBit
  BY <1>3 DEF ClearOldBit, At, LinkTypeOK, CheckPcs
<1>4. QED
  BY <1>1, <1>2, <1>3 DEF CheckLink

LEMMA DeclareTyped == LinkTypeOK /\ DeclareUp => LinkTypeOK'
<1> SUFFICES ASSUME LinkTypeOK, DeclareUp PROVE LinkTypeOK'
  OBVIOUS
<1>1. CASE checkPc = "declare_bit"
  <2>1. SetBits({"LINK_UP"}) /\ {"LINK_UP"} \in SUBSET Events
    BY <1>1 DEF DeclareUp, At, Events
  <2>2. QED
    BY <1>1, <2>1, SetBitsTyped DEF DeclareUp, At, LinkTypeOK, CheckPcs
<1>2. CASE checkPc # "declare_bit"
  BY <1>2 DEF DeclareUp, At, LinkTypeOK, CheckPcs
<1>3. QED
  BY <1>1, <1>2

LEMMA WatcherTyped ==
    ASSUME LinkTypeOK, NEW w \in Watchers, EventWait(w)
    PROVE  LinkTypeOK'
<1>1. PICK wanted \in Wants :
         watch' = [watch EXCEPT ![w] =
            IF bits \cap wanted # {}
            THEN [pc |-> "returned", want |-> wanted, got |-> bits]
            ELSE [pc |-> "blocked", want |-> wanted, got |-> {}]]
  BY DEF EventWait
<1>2. QED
  BY <1>1 DEF EventWait, LinkTypeOK

LEMMA CableTyped == LinkTypeOK /\ CableMoves => LinkTypeOK'
  BY DEF CableMoves, checkVars, LinkTypeOK
-----------------------------------------------------------------------------
(* The copies of the link state, step by step of the check.                  *)

\* What the event bits are while link_status has a given value.
BitsFor(up) == IF up THEN {{"LINK_UP"}} ELSE {{}, {"LINK_DOWN"}}
NewBit == IF seen THEN "LINK_UP" ELSE "LINK_DOWN"

\* The interface's flag is written first, then the bits, link_status last; so
\* too by the build that only declares the link up.
CopiesInv ==
    /\ checkPc \in {"set_link", "set_bit", "clear_bit", "save"} => seen # linkStatus
    /\ checkPc \in {"declare_bit", "declare_status"} => netifLink /\ ~linkStatus
    /\ checkPc = "declare_bit" => bits = {}
    /\ checkPc = "declare_status" => bits = {"LINK_UP"}
    /\ checkPc \in {"idle", "set_link"} => netifLink = linkStatus
    /\ checkPc \in {"set_bit", "clear_bit", "save"} => netifLink = seen
    /\ checkPc \in {"idle", "set_link", "set_bit"} => bits \in BitsFor(linkStatus)
    /\ checkPc = "clear_bit" => NewBit \in bits
    /\ checkPc = "save" => bits = {NewBit}

LEMMA CopiesStart == LinkInit => CopiesInv
  BY DEF LinkInit, CopiesInv, BitsFor

LEMMA CheckKeepsCopies == LinkTypeOK /\ CopiesInv /\ CheckLink => CopiesInv'
<1> SUFFICES ASSUME LinkTypeOK, CopiesInv, CheckLink PROVE CopiesInv'
  OBVIOUS
<1>1. CASE ReadLink \/ ReadLinkFails
  BY <1>1 DEF ReadLink, ReadLinkFails, At, CopiesInv, BitsFor, LinkTypeOK
<1>2. CASE SetNetifLink
  BY <1>2 DEF SetNetifLink, At, CopiesInv, BitsFor
<1>3. CASE SetNewBit
  BY <1>3 DEF SetNewBit, SetBits, At, CopiesInv, NewBit
<1>4. CASE ClearOldBit
  <2>1. bits' = {NewBit}
    BY <1>4 DEF ClearOldBit, At, CopiesInv, NewBit, LinkTypeOK, Events
  <2> QED
    BY <1>4, <2>1 DEF ClearOldBit, At, CopiesInv, NewBit
<1>5. CASE SaveStatus
  BY <1>5 DEF SaveStatus, At, CopiesInv, NewBit, BitsFor, LinkTypeOK
<1> QED
  BY <1>1, <1>2, <1>3, <1>4, <1>5 DEF CheckLink

\* Declaring the link up makes the copies agree in the end, as long as no event
\* was set and the link not known before.
LEMMA DeclareKeepsCopies ==
    CopiesInv /\ (checkPc = "idle" => bits = {} /\ ~linkStatus) /\ DeclareUp => CopiesInv'
<1> SUFFICES ASSUME CopiesInv, checkPc = "idle" => bits = {} /\ ~linkStatus, DeclareUp
             PROVE  CopiesInv'
  OBVIOUS
<1>1. CASE checkPc = "idle"
  <2>1. checkPc' = "declare_bit" /\ netifLink' /\ bits' = {} /\ linkStatus' = linkStatus
    BY <1>1 DEF DeclareUp, At
  <2>2. QED
    BY <1>1, <2>1 DEF CopiesInv
<1>2. CASE checkPc = "declare_bit"
  <2>1. checkPc' = "declare_status" /\ UNCHANGED <<netifLink, linkStatus>>
    BY <1>2 DEF DeclareUp, At
  <2>2. bits' = {"LINK_UP"}
    BY <1>2 DEF DeclareUp, At, SetBits, CopiesInv
  <2>3. QED
    BY <1>2, <2>1, <2>2 DEF CopiesInv
<1>3. CASE checkPc = "declare_status"
  <2>1. checkPc' = "idle" /\ linkStatus' = TRUE /\ UNCHANGED <<netifLink, bits>>
    BY <1>3 DEF DeclareUp, At
  <2>2. netifLink' /\ bits' = {"LINK_UP"}
    BY <1>3, <2>1 DEF CopiesInv
  <2>3. netifLink \in BOOLEAN => netifLink' = linkStatus'
    BY <2>1, <2>2
  <2>4. QED
    BY <2>1, <2>2, <2>3 DEF CopiesInv, BitsFor
<1>4. QED
  BY <1>1, <1>2, <1>3 DEF DeclareUp, At

LEMMA CopiesUntouched ==
    ASSUME CopiesInv, UNCHANGED <<checkPc, seen, linkStatus, netifLink, bits>>
    PROVE  CopiesInv'
  BY DEF CopiesInv, NewBit, BitsFor

LEMMA CopiesThenAgree == CopiesInv => CopiesAgree
  BY DEF CopiesInv, CopiesAgree, BitsFor

LEMMA CopiesThenNoRepeat == LinkTypeOK /\ CopiesInv => NoRepeatedLinkEvent
  BY DEF LinkTypeOK, CopiesInv, NoRepeatedLinkEvent

\* The new bit is set before the old one is cleared.
LEMMA CheckKeepsEvent == CopiesInv /\ CheckLink /\ bits # {} => bits' # {}
<1> SUFFICES ASSUME CopiesInv, CheckLink, bits # {} PROVE bits' # {}
  OBVIOUS
<1>1. CASE ClearOldBit
  <2>1. NewBit \in bits
    BY <1>1 DEF ClearOldBit, At, CopiesInv
  <2>2. NewBit \in bits'
    BY <1>1, <2>1 DEF ClearOldBit, NewBit
  <2> QED
    BY <2>2
<1> QED
  BY <1>1 DEF CheckLink, ReadLink, ReadLinkFails, SetNetifLink, SetNewBit, SetBits, SaveStatus

LEMMA DeclareKeepsEvent == DeclareUp /\ bits # {} => bits' # {}
  BY DEF DeclareUp, SetBits

-----------------------------------------------------------------------------
(* The watchers: no bit is set past a task that waits for it.                *)

Waits(w) == watch[w].pc = "blocked" => watch[w].want \in Wants /\ watch[w].want \cap bits = {}
WatchInv == \A w \in Watchers : Waits(w)

LEMMA WatchStart == LinkInit => WatchInv
  BY DEF LinkInit, WatchInv, Waits

LEMMA SetBitsWakes ==
    ASSUME LinkTypeOK, WatchInv, NEW b, SetBits(b) PROVE WatchInv'
<1>1. ASSUME NEW w \in Watchers PROVE Waits(w)'
  <2>1. watch[w] \in [pc : {"idle", "blocked", "returned"}, want : Wants \cup {{}},
                      got : SUBSET Events]
    BY DEF LinkTypeOK
  <2>2. CASE watch[w].pc = "blocked" /\ watch[w].want \cap (bits \cup b) # {}
    <3>1. watch'[w] = [watch[w] EXCEPT !.pc = "returned", !.got = bits \cup b]
      BY <2>2 DEF SetBits
    <3> QED
      BY <2>1, <3>1 DEF Waits
  <2>3. CASE ~(watch[w].pc = "blocked" /\ watch[w].want \cap (bits \cup b) # {})
    <3>1. watch'[w] = watch[w] /\ bits' = bits \cup b
      BY <2>3 DEF SetBits
    <3> QED
      BY <2>3, <3>1 DEF Waits, WatchInv
  <2> QED
    BY <2>2, <2>3
<1> QED
  BY <1>1 DEF WatchInv

LEMMA CheckKeepsWatch == LinkTypeOK /\ WatchInv /\ CheckLink => WatchInv'
<1> SUFFICES ASSUME LinkTypeOK, WatchInv, CheckLink PROVE WatchInv'
  OBVIOUS
<1>1. CASE SetNewBit
  BY <1>1, SetBitsWakes DEF SetNewBit
<1>2. CASE UNCHANGED watch /\ bits' \subseteq bits
  BY <1>2 DEF WatchInv, Waits
<1> QED
  BY <1>1, <1>2 DEF CheckLink, ReadLink, ReadLinkFails, SetNetifLink, ClearOldBit, SaveStatus

LEMMA DeclareKeepsWatch == LinkTypeOK /\ WatchInv /\ DeclareUp => WatchInv'
<1> SUFFICES ASSUME LinkTypeOK, WatchInv, DeclareUp PROVE WatchInv'
  OBVIOUS
<1>1. CASE checkPc = "declare_bit"
  BY <1>1, SetBitsWakes DEF DeclareUp, At
<1>2. CASE checkPc # "declare_bit"
  BY <1>2 DEF DeclareUp, At, WatchInv, Waits
<1>3. QED
  BY <1>1, <1>2

\* Who is released, and by which bit.
LEMMA SetBitsReleases ==
    ASSUME LinkTypeOK, WatchInv, NEW b, SetBits(b), NEW w \in Watchers,
           watch[w].pc = "blocked", watch'[w].pc = "returned"
    PROVE  watch[w].want \cap b # {}
<1>1. watch[w].want \cap bits = {}
  BY DEF WatchInv, Waits
<1>2. CASE watch[w].want \cap (bits \cup b) # {}
  BY <1>1, <1>2
<1>3. CASE ~(watch[w].want \cap (bits \cup b) # {})
  BY <1>3 DEF SetBits
<1>4. QED
  BY <1>2, <1>3

\* What a task finds that is released from a wait for one of the link events.
ReleaseFindsLink ==
    \A w \in Watchers :
       watch[w].pc = "blocked" /\ watch'[w].pc = "returned" =>
          /\ watch[w].want = {"LINK_UP"} => netifLink'
          /\ watch[w].want = {"LINK_DOWN"} => ~netifLink'

LEMMA CheckReleases == LinkTypeOK /\ CopiesInv /\ WatchInv /\ CheckLink => ReleaseFindsLink
<1> SUFFICES ASSUME LinkTypeOK, CopiesInv, WatchInv, CheckLink PROVE ReleaseFindsLink
  OBVIOUS
<1>1. CASE SetNewBit
  <2>1. netifLink' = seen /\ SetBits({NewBit})
    BY <1>1 DEF SetNewBit, At, CopiesInv, NewBit
  <2>2. ASSUME NEW w \in Watchers, watch[w].pc = "blocked", watch'[w].pc = "returned"
        PROVE  watch[w].want \cap {NewBit} # {}
    BY <2>1, <2>2, SetBitsReleases
  <2>3. QED
    BY <2>1, <2>2 DEF ReleaseFindsLink, NewBit
<1>2. CASE UNCHANGED watch
  BY <1>2 DEF ReleaseFindsLink
<1>3. QED
  BY <1>1, <1>2 DEF CheckLink, ReadLink, ReadLinkFails, SetNetifLink, ClearOldBit, SaveStatus

LEMMA DeclareReleases == LinkTypeOK /\ CopiesInv /\ WatchInv /\ DeclareUp => ReleaseFindsLink
<1> SUFFICES ASSUME LinkTypeOK, CopiesInv, WatchInv, DeclareUp PROVE ReleaseFindsLink
  OBVIOUS
<1>1. CASE checkPc = "declare_bit"
  <2>1. netifLink' /\ SetBits({"LINK_UP"})
    BY <1>1 DEF DeclareUp, At, CopiesInv
  <2>2. ASSUME NEW w \in Watchers, watch[w].pc = "blocked", watch'[w].pc = "returned"
        PROVE  watch[w].want \cap {"LINK_UP"} # {}
    BY <2>1, <2>2, SetBitsReleases
  <2>3. QED
    BY <2>1, <2>2 DEF ReleaseFindsLink
<1>2. CASE checkPc # "declare_bit"
  BY <1>2 DEF DeclareUp, At, ReleaseFindsLink
<1>3. QED
  BY <1>1, <1>2

\* A call of another watcher's, or one's own, releases nobody who is blocked.
LEMMA WaitReleases ==
    ASSUME LinkTypeOK, NEW w \in Watchers, EventWait(w) PROVE ReleaseFindsLink
<1>1. ASSUME NEW v \in Watchers, watch[v].pc = "blocked" PROVE watch'[v] = watch[v]
  BY <1>1 DEF EventWait, LinkTypeOK
<1>2. QED
  BY <1>1 DEF ReleaseFindsLink

LEMMA WaitKeepsWatch ==
    ASSUME WatchInv, LinkTypeOK, NEW w \in Watchers, EventWait(w) PROVE WatchInv'
<1>1. PICK wanted \in Wants :
         watch' = [watch EXCEPT ![w] =
            IF bits \cap wanted # {}
            THEN [pc |-> "returned", want |-> wanted, got |-> bits]
            ELSE [pc |-> "blocked", want |-> wanted, got |-> {}]]
  BY DEF EventWait
<1>2. bits' = bits
  BY DEF EventWait
<1>3. ASSUME NEW v \in Watchers PROVE Waits(v)'
  <2>1. CASE v = w
    BY <1>1, <1>2, <2>1 DEF Waits, LinkTypeOK
  <2>2. CASE v # w
    BY <1>1, <1>2, <2>2 DEF Waits, WatchInv, LinkTypeOK
  <2> QED
    BY <2>1, <2>2
<1> QED
  BY <1>3 DEF WatchInv

\* Between two checks no task is blocked in a wait for the state in which the
\* link is known to be - but for LINK_DOWN before the first link.
NobodyForgotten ==
    checkPc = "idle" /\ (linkStatus \/ bits # {}) =>
       \A w \in Watchers : watch[w].pc = "blocked" =>
          (IF linkStatus THEN "LINK_UP" ELSE "LINK_DOWN") \notin watch[w].want

LEMMA WatchThenNobody == CopiesInv /\ WatchInv => NobodyForgotten
  BY DEF CopiesInv, WatchInv, Waits, Wants, Events, BitsFor, NobodyForgotten
===============================================================================
