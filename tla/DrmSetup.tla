------------------------------- MODULE DrmSetup ------------------------------
(***************************************************************************)
(* Taking the display over: drm_init() of drmFun.c (the same code in both   *)
(* programs) chooses a connector, an encoder and a crtc, makes a dumb       *)
(* buffer, a frame buffer and a mapping, and has the crtc scan it out.      *)
(*                                                                         *)
(* The resources the kernel reports are a constant of a behaviour: every    *)
(* topology of a small machine is an initial state.                         *)
(***************************************************************************)
EXTENDS Integers

CONSTANTS
  NConn, NEnc, NCrtc,  \* connectors, encoders and crtcs; ids start at 1
  Faults               \* the calls that may fail, out of FaultKinds

FaultKinds == {"resources", "connector", "encoder", "dumb", "addfb", "mapdumb",
               "setcrtc"}

ASSUME DrmAssumption ==
  /\ NConn \in Nat /\ NEnc \in Nat /\ NCrtc \in Nat
  /\ Faults \subseteq FaultKinds

Conn == 1 .. NConn
Enc == 1 .. NEnc
Crtc == 1 .. NCrtc

VARIABLES
  conn,      \* connectors: usable (connected, with modes), encoder, encoders
  enc,       \* encoders: the crtc bound to it or 0, the crtcs it may drive
  stage,     \* the next call; see Stage
  i,         \* the loop variable of drm_FindConnector
  kms,       \* kms.conn_id, encoder_id and crtc_id, 0 before drm_kms_init
  dumb,      \* the dumb buffer exists
  fb,        \* the frame buffer object exists
  mapped,    \* kms.fb_map is mapped
  scan,      \* what each crtc scans out: console, ours, nothing
  oldCrtc    \* the configuration kms.old_crtc holds; none before it is read

topology == <<conn, enc>>
vars == <<topology, stage, i, kms, dumb, fb, mapped, scan, oldCrtc>>

NoKms == [conn |-> 0, enc |-> 0, crtc |-> 0]

\* What the kernel can report: a bound encoder is one of the connector's, and a
\* bound crtc is one the encoder can drive.
Connectors ==
  [Conn -> {c \in [usable : BOOLEAN, encoder : 0 .. NEnc, encoders : SUBSET Enc] :
              c.encoder # 0 => c.encoder \in c.encoders}]
Encoders ==
  [Enc -> {e \in [crtc : 0 .. NCrtc, possible : SUBSET Crtc] :
             e.crtc # 0 => e.crtc \in e.possible}]

Init ==
  /\ conn \in Connectors /\ enc \in Encoders
  /\ stage = "resources" /\ i = 1
  /\ kms = NoKms
  /\ dumb = FALSE /\ fb = FALSE /\ mapped = FALSE
  /\ scan = [c \in Crtc |-> "console"]
  /\ oldCrtc = "none"

Goto(from, to) == stage = from /\ stage' = to

-----------------------------------------------------------------------------
(* drmModeGetResources, drm_FindConnector, drm_FindEncoder, drm_find_crtc.  *)

GetResources ==
  /\ Goto("resources", "find")
  /\ UNCHANGED <<topology, i, kms, dumb, fb, mapped, scan, oldCrtc>>

GetResourcesFails ==
  /\ "resources" \in Faults
  /\ Goto("resources", "failed")
  /\ UNCHANGED <<topology, i, kms, dumb, fb, mapped, scan, oldCrtc>>

\* "continue" in the loop of drm_FindConnector.
NextConnector ==
  /\ stage = "find" /\ i <= NConn
  /\ i' = i + 1
  /\ UNCHANGED <<topology, stage, kms, dumb, fb, mapped, scan, oldCrtc>>

\* Mutant: the loop runs to i <= count_connectors.
GetConnectorPastEnd ==
  /\ "connector" \in Faults
  /\ stage = "find" /\ i <= NConn + 1
  /\ i' = i + 1
  /\ UNCHANGED <<topology, stage, kms, dumb, fb, mapped, scan, oldCrtc>>

GetConnectorFails ==
  /\ "connector" \in Faults
  /\ NextConnector

\* Not connected or without a mode (the connector is not freed either).
SkipConnector ==
  /\ NextConnector
  /\ ~ conn[i].usable

\* drm_FindEncoder when the bound encoder has a crtc: all three are taken.
TakeBound ==
  /\ stage = "find" /\ i <= NConn
  /\ conn[i].usable
  /\ LET e == conn[i].encoder
     IN  /\ e # 0
         /\ enc[e].crtc # 0
         /\ kms' = [conn |-> i, enc |-> e, crtc |-> enc[e].crtc]
  /\ stage' = "dumb"
  /\ UNCHANGED <<topology, i, dumb, fb, mapped, scan, oldCrtc>>

\* drm_find_crtc: the encoder has no crtc, but could drive one.  It looks at
\* the bound encoder in every round, and drm_kms_init stores encoder->crtc_id,
\* which is 0, and not the crtc the loop found.
TakeCompatible ==
  /\ stage = "find" /\ i <= NConn
  /\ conn[i].usable
  /\ LET e == conn[i].encoder
     IN  /\ e # 0
         /\ enc[e].crtc = 0
         /\ enc[e].possible # {}
         /\ kms' = [conn |-> i, enc |-> e, crtc |-> enc[e].crtc]
  /\ stage' = "dumb"
  /\ UNCHANGED <<topology, i, dumb, fb, mapped, scan, oldCrtc>>

\* drm_find_crtc found nothing, or got no encoder: the connector is freed and
\* the next one tried.
NoCompatible ==
  /\ NextConnector
  /\ conn[i].usable
  /\ conn[i].encoder # 0
  /\ enc[conn[i].encoder].crtc = 0
  /\ enc[conn[i].encoder].possible = {} \/ "encoder" \in Faults

\* The connector has no bound encoder, or the kernel does not return it: the
\* printf of either branch reads encoder->encoder_id through a null pointer.
FindEncoderCrashes ==
  /\ stage = "find" /\ i <= NConn
  /\ conn[i].usable
  /\ conn[i].encoder = 0 \/ "encoder" \in Faults
  /\ stage' = "crashed"
  /\ UNCHANGED <<topology, i, kms, dumb, fb, mapped, scan, oldCrtc>>

NoConnector ==
  /\ i > NConn
  /\ Goto("find", "failed")
  /\ UNCHANGED <<topology, i, kms, dumb, fb, mapped, scan, oldCrtc>>

-----------------------------------------------------------------------------
(* drm_crtc_fb, drm_fb_mmap and drm_set_kms.                               *)

CreateDumb ==
  /\ Goto("dumb", "addfb")
  /\ dumb' = TRUE
  /\ UNCHANGED <<topology, i, kms, fb, mapped, scan, oldCrtc>>

CreateDumbFails ==
  /\ "dumb" \in Faults
  /\ Goto("dumb", "failed")
  /\ UNCHANGED <<topology, i, kms, dumb, fb, mapped, scan, oldCrtc>>

AddFB ==
  /\ Goto("addfb", "map")
  /\ fb' = TRUE
  /\ UNCHANGED <<topology, i, kms, dumb, mapped, scan, oldCrtc>>

\* The label err of drm_crtc_fb.
AddFBFails ==
  /\ "addfb" \in Faults
  /\ Goto("addfb", "failed")
  /\ dumb' = FALSE
  /\ UNCHANGED <<topology, i, kms, fb, mapped, scan, oldCrtc>>

FbMmap ==
  /\ Goto("map", "setFirst")
  /\ mapped' = TRUE
  /\ UNCHANGED <<topology, i, kms, dumb, fb, scan, oldCrtc>>

\* Mutant: drm_crtc_fb goes to err, not to err1.
FbMmapFailsToErr ==
  /\ "mapdumb" \in Faults
  /\ Goto("map", "failed")
  /\ dumb' = FALSE
  /\ UNCHANGED <<topology, i, kms, fb, mapped, scan, oldCrtc>>

\* DRM_IOCTL_MODE_MAP_DUMB or mmap fails: the labels err1 and err.
FbMmapFails ==
  /\ "mapdumb" \in Faults
  /\ Goto("map", "failed")
  /\ fb' = FALSE /\ dumb' = FALSE
  /\ UNCHANGED <<topology, i, kms, mapped, scan, oldCrtc>>

\* drmModeGetCrtc, first thing in drm_set_kms; there is no crtc 0.
SaveOldCrtc == oldCrtc' = IF kms.crtc = 0 THEN "none" ELSE scan[kms.crtc]

\* drmModeSetCrtc succeeds.
ShowOnCrtc ==
  /\ kms.crtc # 0
  /\ scan' = [scan EXCEPT ![kms.crtc] = "ours"]

SetCrtcCanFail == kms.crtc = 0 \/ "setcrtc" \in Faults

\* drm_crtc_fb calls drm_set_kms and ignores its result.
SetFirst ==
  /\ Goto("setFirst", "setSecond")
  /\ SaveOldCrtc
  /\ \/ ShowOnCrtc
     \/ SetCrtcCanFail /\ UNCHANGED scan
  /\ UNCHANGED <<topology, i, kms, dumb, fb, mapped>>

\* drm_init calls it again, this time for its result.
SetSecond ==
  /\ Goto("setSecond", "ready")
  /\ SaveOldCrtc
  /\ ShowOnCrtc
  /\ UNCHANGED <<topology, i, kms, dumb, fb, mapped>>

\* Mutant: the second result is ignored like the first one.
SetSecondFailsIgnored ==
  /\ SetCrtcCanFail
  /\ Goto("setSecond", "ready")
  /\ SaveOldCrtc
  /\ UNCHANGED <<topology, i, kms, dumb, fb, mapped, scan>>

\* drm_free_fb; removing a frame buffer that is scanned out turns its crtc off.
SetSecondFails ==
  /\ SetCrtcCanFail
  /\ Goto("setSecond", "failed")
  /\ SaveOldCrtc
  /\ mapped' = FALSE /\ fb' = FALSE /\ dumb' = FALSE
  /\ scan' = [c \in Crtc |-> IF scan[c] = "ours" THEN "nothing" ELSE scan[c]]
  /\ UNCHANGED <<topology, i, kms>>

FindConnector ==
  \/ GetConnectorFails \/ SkipConnector \/ TakeBound \/ TakeCompatible
  \/ NoCompatible \/ FindEncoderCrashes \/ NoConnector

CrtcFb ==
  CreateDumb \/ CreateDumbFails \/ AddFB \/ AddFBFails \/ FbMmap \/ FbMmapFails

SetKms == SetFirst \/ SetSecond \/ SetSecondFails

Next == GetResources \/ GetResourcesFails \/ FindConnector \/ CrtcFb \/ SetKms

Spec == Init /\ [][Next]_vars

-----------------------------------------------------------------------------
(* Properties.                                                             *)

Stage == {"resources", "find", "dumb", "addfb", "map", "setFirst", "setSecond",
          "ready", "failed", "crashed"}

\* The type invariant.
DrmTypeOK ==
  /\ conn \in Connectors /\ enc \in Encoders
  /\ stage \in Stage
  /\ i \in 1 .. NConn + 1
  /\ kms \in [conn : 0 .. NConn, enc : 0 .. NEnc, crtc : 0 .. NCrtc]
  /\ dumb \in BOOLEAN /\ fb \in BOOLEAN /\ mapped \in BOOLEAN
  /\ scan \in [Crtc -> {"console", "ours", "nothing"}]
  /\ oldCrtc \in {"none", "console", "ours", "nothing"}

\* drm_init returns -1: whatever failed, no dumb buffer, frame buffer or mapping
\* is left, and no crtc still scans a removed frame buffer out.
FailureLeavesNothing ==
  stage = "failed" =>
    /\ ~ dumb /\ ~ fb /\ ~ mapped
    /\ \A c \in Crtc : scan[c] # "ours"

\* drm_init returns 0: the mapped frame buffer is what a crtc shows, and that
\* crtc drives the encoder of a usable connector.
ReadyIsShown ==
  stage = "ready" =>
    /\ dumb /\ fb /\ mapped
    /\ kms.crtc # 0 /\ scan[kms.crtc] = "ours"
    /\ conn[kms.conn].usable
    /\ conn[kms.conn].encoder = kms.enc
    /\ enc[kms.enc].crtc = kms.crtc

\* The comment before drm_find_crtc: when a connector has no bound encoder, or
\* its encoder no bound crtc, a crtc that suits is looked for.  Then drm_init has
\* a display whenever a usable connector has an encoder that some crtc suits.
SearchFindsCrtc ==
  Faults = {} /\ stage \in {"failed", "crashed"} =>
    \A c \in Conn : conn[c].usable =>
      \A e \in conn[c].encoders : enc[e].possible = {}

-----------------------------------------------------------------------------
(* The inductive invariant: what exists at each stage.                     *)

\* Dumb buffer, frame buffer and mapping come and go in this order, and only a
\* crtc that was set shows the frame buffer.
Made ==
  /\ dumb <=> stage \in {"addfb", "map", "setFirst", "setSecond", "ready"}
  /\ fb <=> stage \in {"map", "setFirst", "setSecond", "ready"}
  /\ mapped <=> stage \in {"setFirst", "setSecond", "ready"}
  /\ stage \notin {"setSecond", "ready"} => \A c \in Crtc : scan[c] # "ours"
  /\ stage = "ready" => kms.crtc \in Crtc /\ scan[kms.crtc] = "ours"

\* kms names a usable connector, its encoder and that encoder's crtc (or 0).
Chosen ==
  stage \in {"dumb", "addfb", "map", "setFirst", "setSecond", "ready"} =>
    /\ kms.conn \in Conn /\ kms.enc \in Enc
    /\ conn[kms.conn].usable
    /\ conn[kms.conn].encoder = kms.enc
    /\ enc[kms.enc].crtc = kms.crtc

DrmInv == DrmTypeOK /\ Made /\ Chosen

\* The case drm_FindEncoder takes at once: the first usable connector has a bound
\* encoder, and that encoder a bound crtc.
Bound(c) == conn[c].encoder # 0 /\ enc[conn[c].encoder].crtc # 0
FirstUsableBound ==
  \A c \in Conn :
    conn[c].usable /\ (\A d \in Conn : d < c => ~ conn[d].usable) => Bound(c)

\* Nothing usable is passed over then.
SearchedUpTo ==
  Faults = {} /\ FirstUsableBound =>
    /\ stage = "find" => \A c \in Conn : c < i => ~ conn[c].usable
    /\ stage \in {"dumb", "addfb", "map", "setFirst", "setSecond", "ready"} =>
         kms.crtc # 0
    /\ stage = "failed" => \A c \in Conn : ~ conn[c].usable
    /\ stage # "crashed"
    /\ i >= 1 /\ (stage = "resources" => i = 1)

=============================================================================
