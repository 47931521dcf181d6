---------------------------- MODULE DrmSetupProofs ----------------------------
(***************************************************************************)
(* DrmSetup for any number of connectors, encoders and crtcs, any topology  *)
(* of them and any set of failing calls.  The argument is DrmInv: which of  *)
(* the objects drm_init makes exist at each stage.                          *)
(***************************************************************************)
EXTENDS DrmSetup, TLAPS

\* drm_init starts without any object of its own.
LEMMA DrmInit == Init => DrmInv
<1> SUFFICES ASSUME Init PROVE DrmInv
  OBVIOUS
<1>1. DrmTypeOK
  <2>1. 1 \in 1 .. NConn + 1 /\ 0 \in 0 .. NConn /\ 0 \in 0 .. NEnc /\ 0 \in 0 .. NCrtc
    BY DrmAssumption
  <2>2. QED
    BY <2>1 DEF Init, DrmTypeOK, NoKms, Stage
<1>2. Made /\ Chosen
  BY DEF Init, Made, Chosen
<1>3. QED
  BY <1>1, <1>2 DEF DrmInv

\* The bound encoder of a usable connector, as drm_FindEncoder reads it.
LEMMA BoundEncoder ==
  ASSUME DrmTypeOK, i <= NConn, conn[i].encoder # 0
  PROVE  /\ i \in Conn /\ i \in 0 .. NConn
         /\ conn[i].encoder \in Enc /\ conn[i].encoder \in 0 .. NEnc
         /\ enc[conn[i].encoder].crtc \in 0 .. NCrtc
<1>1. i \in Conn /\ i \in 0 .. NConn
  BY DrmAssumption DEF DrmTypeOK, Conn
<1>2. conn[i] \in [usable : BOOLEAN, encoder : 0 .. NEnc, encoders : SUBSET Enc]
  BY <1>1 DEF DrmTypeOK, Connectors
<1>3. conn[i].encoder \in Enc /\ conn[i].encoder \in 0 .. NEnc
  BY <1>2, DrmAssumption DEF Enc
<1>4. enc[conn[i].encoder] \in [crtc : 0 .. NCrtc, possible : SUBSET Crtc]
  BY <1>3 DEF DrmTypeOK, Encoders
<1>5. QED
  BY <1>1, <1>3, <1>4

\* Setting a crtc needs one of the crtcs of the machine.
LEMMA KmsCrtc == DrmTypeOK /\ kms.crtc # 0 => kms.crtc \in Crtc
  BY DrmAssumption DEF DrmTypeOK, Crtc

\* Every step keeps the types and what exists at each stage.
LEMMA DrmStep == DrmInv /\ [Next]_vars => DrmInv'
<1> SUFFICES ASSUME DrmInv, [Next]_vars PROVE DrmInv'
  OBVIOUS
<1>1. DrmTypeOK /\ Made /\ Chosen
  BY DEF DrmInv
<1> USE <1>1 DEF DrmTypeOK, Made, Chosen, DrmInv, Stage, Goto, topology, vars
<1>2. CASE UNCHANGED vars
  BY <1>2
<1>3. CASE GetResources \/ GetResourcesFails
  BY <1>3 DEF GetResources, GetResourcesFails
<1>4. CASE GetConnectorFails \/ SkipConnector \/ NoCompatible
  <2>1. NextConnector
    BY <1>4 DEF GetConnectorFails, SkipConnector, NoCompatible
  <2>2. i' \in 1 .. NConn + 1
    BY <2>1, DrmAssumption DEF NextConnector
  <2>3. QED
    BY <2>1, <2>2 DEF NextConnector
<1>5. CASE TakeBound \/ TakeCompatible
  <2>1. /\ i <= NConn /\ conn[i].usable /\ conn[i].encoder # 0
        /\ kms' = [conn |-> i, enc |-> conn[i].encoder, crtc |-> enc[conn[i].encoder].crtc]
        /\ stage = "find" /\ stage' = "dumb"
        /\ UNCHANGED <<topology, i, dumb, fb, mapped, scan, oldCrtc>>
    BY <1>5 DEF TakeBound, TakeCompatible
  <2>2. /\ i \in Conn /\ i \in 0 .. NConn
        /\ conn[i].encoder \in Enc /\ conn[i].encoder \in 0 .. NEnc
        /\ enc[conn[i].encoder].crtc \in 0 .. NCrtc
    BY <2>1, BoundEncoder
  <2>3. DrmTypeOK'
    BY <2>1, <2>2
  <2>4. Made' /\ Chosen'
    BY <2>1, <2>2
  <2>5. QED
    BY <2>3, <2>4
<1>6. CASE FindEncoderCrashes \/ NoConnector
  BY <1>6 DEF FindEncoderCrashes, NoConnector
<1>7. CASE CrtcFb
  <2>1. /\ stage \in {"dumb", "addfb", "map"}
        /\ stage' \in {"addfb", "map", "setFirst", "failed"}
        /\ UNCHANGED <<topology, i, kms, scan, oldCrtc>>
        /\ dumb' \in BOOLEAN /\ fb' \in BOOLEAN /\ mapped' \in BOOLEAN
    BY <1>7 DEF CrtcFb, CreateDumb, CreateDumbFails, AddFB, AddFBFails, FbMmap, FbMmapFails
  <2>2. DrmTypeOK'
    BY <2>1
  <2>3. /\ dumb' <=> stage' \in {"addfb", "map", "setFirst", "setSecond", "ready"}
        /\ fb' <=> stage' \in {"map", "setFirst", "setSecond", "ready"}
        /\ mapped' <=> stage' \in {"setFirst", "setSecond", "ready"}
    BY <1>7 DEF CrtcFb, CreateDumb, CreateDumbFails, AddFB, AddFBFails, FbMmap, FbMmapFails
  <2>4. Made' /\ Chosen'
    BY <2>1, <2>3
  <2>5. QED
    BY <2>2, <2>4
<1>8. CASE SetFirst
  <2>1. kms.crtc # 0 => kms.crtc \in Crtc
    BY KmsCrtc
  <2>2. oldCrtc' \in {"none", "console", "ours", "nothing"}
    BY <1>8, <2>1 DEF SetFirst, SaveOldCrtc
  <2>3. scan' \in [Crtc -> {"console", "ours", "nothing"}]
    BY <1>8, <2>1 DEF SetFirst, ShowOnCrtc
  <2>4. QED
    BY <1>8, <2>2, <2>3 DEF SetFirst
<1>9. CASE SetSecond
  <2>1. kms.crtc \in Crtc
    BY <1>9, KmsCrtc DEF SetSecond, ShowOnCrtc
  <2>2. oldCrtc' \in {"none", "console", "ours", "nothing"}
    BY <1>9, <2>1 DEF SetSecond, SaveOldCrtc
  <2>3. scan' \in [Crtc -> {"console", "ours", "nothing"}] /\ scan'[kms.crtc] = "ours"
    BY <1>9, <2>1 DEF SetSecond, ShowOnCrtc
  <2>4. QED
    BY <1>9, <2>1, <2>2, <2>3 DEF SetSecond
<1>10. CASE SetSecondFails
  <2>1. oldCrtc' \in {"none", "console", "ours", "nothing"}
    BY <1>10, KmsCrtc DEF SetSecondFails, SaveOldCrtc
  <2>2. /\ scan' \in [Crtc -> {"console", "ours", "nothing"}]
        /\ \A c \in Crtc : scan'[c] # "ours"
    BY <1>10 DEF SetSecondFails
  <2>3. QED
    BY <1>10, <2>1, <2>2 DEF SetSecondFails
<1>11. QED
  BY <1>2, <1>3, <1>4, <1>5, <1>6, <1>7, <1>8, <1>9, <1>10
  DEF Next, FindConnector, SetKms

\* The inductive invariant of drm_init holds in every reachable state.
THEOREM DrmInductive == Spec => []DrmInv
<1>1. QED
  BY DrmInit, DrmStep, PTL DEF Spec

\* The types hold for machines of any size.
THEOREM DrmTypeCorrect == Spec => []DrmTypeOK
<1>1. DrmInv => DrmTypeOK
  BY DEF DrmInv
<1>2. QED
  BY <1>1, DrmInductive, PTL

\* A failed drm_init leaves no buffer, frame buffer, mapping or scan-out of it.
THEOREM FailureLeavesNothingAlways == Spec => []FailureLeavesNothing
<1>1. DrmInv => FailureLeavesNothing
  BY DEF DrmInv, Made, FailureLeavesNothing
<1>2. QED
  BY <1>1, DrmInductive, PTL

\* A successful drm_init has the mapped frame buffer on the screen.
THEOREM ReadyIsShownAlways == Spec => []ReadyIsShown
<1>1. DrmInv => ReadyIsShown
  <2>1. 0 \notin Crtc
    BY DrmAssumption DEF Crtc
  <2>2. QED
    BY <2>1 DEF DrmInv, Made, Chosen, ReadyIsShown
<1>2. QED
  BY <1>1, DrmInductive, PTL

-----------------------------------------------------------------------------
(* What the comment of drm_find_crtc promises holds after all on a machine  *)
(* whose first usable connector is bound as far as a crtc.                  *)

LEMMA SearchInit == Init => SearchedUpTo
<1>1. \A c \in Conn : ~ c < 1
  BY DrmAssumption DEF Conn
<1>2. QED
  BY <1>1 DEF Init, SearchedUpTo

LEMMA SearchStep == DrmInv /\ SearchedUpTo /\ [Next]_vars => SearchedUpTo'
<1> SUFFICES ASSUME DrmInv, SearchedUpTo, [Next]_vars, Faults = {}, FirstUsableBound'
             PROVE  /\ stage' = "find" => \A c \in Conn : c < i' => ~ conn'[c].usable
                    /\ stage' \in {"dumb", "addfb", "map", "setFirst", "setSecond", "ready"} =>
                         kms'.crtc # 0
                    /\ stage' = "failed" => \A c \in Conn : ~ conn'[c].usable
                    /\ stage' # "crashed"
                    /\ i' >= 1 /\ (stage' = "resources" => i' = 1)
  BY DEF SearchedUpTo
<1>1. UNCHANGED topology
  BY DEF Next, GetResources, GetResourcesFails, FindConnector, GetConnectorFails,
     SkipConnector, NextConnector, TakeBound, TakeCompatible, NoCompatible,
     FindEncoderCrashes, NoConnector, CrtcFb, CreateDumb, CreateDumbFails, AddFB, AddFBFails,
     FbMmap, FbMmapFails, SetKms, SetFirst, SetSecond, SetSecondFails, vars
<1>2. FirstUsableBound
  BY <1>1 DEF FirstUsableBound, Bound, topology
<1>3. /\ stage = "find" => \A c \in Conn : c < i => ~ conn[c].usable
      /\ stage \in {"dumb", "addfb", "map", "setFirst", "setSecond", "ready"} => kms.crtc # 0
      /\ stage = "failed" => \A c \in Conn : ~ conn[c].usable
      /\ stage # "crashed"
      /\ i >= 1 /\ (stage = "resources" => i = 1)
  BY <1>2 DEF SearchedUpTo
<1>4. i \in Int /\ NConn \in Int /\ \A c \in Conn : c \in Int /\ c >= 1 /\ c <= NConn
  BY DrmAssumption DEF DrmInv, DrmTypeOK, Conn
<1>5. ASSUME stage = "find", i <= NConn, conn[i].usable
      PROVE  conn[i].encoder # 0 /\ enc[conn[i].encoder].crtc # 0
  <2>1. i \in Conn
    BY <1>3, <1>4, <1>5, DrmAssumption DEF Conn
  <2>2. QED
    BY <1>2, <1>3, <1>5, <2>1 DEF FirstUsableBound, Bound
<1> USE <1>1, <1>3, <1>4, <1>5 DEF Goto, topology
<1>6. CASE UNCHANGED vars
  BY <1>6 DEF vars
<1>7. CASE GetResources \/ GetResourcesFails
  BY <1>7 DEF GetResources, GetResourcesFails
<1>8. CASE FindConnector
  <2>1. ~ GetConnectorFails /\ ~ TakeCompatible /\ ~ NoCompatible /\ ~ FindEncoderCrashes
    BY DEF GetConnectorFails, TakeCompatible, NoCompatible, FindEncoderCrashes, NextConnector
  <2>2. CASE SkipConnector
    BY <2>2 DEF SkipConnector, NextConnector
  <2>3. CASE TakeBound
    BY <2>3 DEF TakeBound
  <2>4. CASE NoConnector
    BY <2>4 DEF NoConnector
  <2>5. QED
    BY <1>8, <2>1, <2>2, <2>3, <2>4 DEF FindConnector
<1>9. CASE CrtcFb
  BY <1>9 DEF CrtcFb, CreateDumb, CreateDumbFails, AddFB, AddFBFails, FbMmap, FbMmapFails
<1>10. CASE SetKms
  BY <1>10 DEF SetKms, SetFirst, SetSecond, SetSecondFails, SetCrtcCanFail
<1>11. QED
  BY <1>6, <1>7, <1>8, <1>9, <1>10 DEF Next

\* Only a machine whose first usable connector is not bound as far as a crtc can
\* be left without a display by a drm_init in which no call fails.
THEOREM OnlyUnboundDefeats == Spec => [](FirstUsableBound => SearchFindsCrtc)
<1>1. DrmInv /\ SearchedUpTo => (FirstUsableBound => SearchFindsCrtc)
  BY DEF SearchedUpTo, SearchFindsCrtc
<1>2. QED
  BY <1>1, SearchInit, SearchStep, DrmInductive, PTL DEF Spec

=============================================================================
