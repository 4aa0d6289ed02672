-------------------------- MODULE Components_proofs --------------------------
(* That nothing is done without the approval it needs: the file of decisions,   *)
(* the packages of the community and the requirements of a launch each have an  *)
(* inductive invariant of their own.  At the end the components together:       *)
(* whichever of them runs keeps its invariant, these and those of Setup_proofs  *)
(* and Effects_proofs, and with it what the run of MCComponents asks.          *)
EXTENDS Setup_proofs, Effects_proofs

-----------------------------------------------------------------------------
(* The file of decisions.                                                   *)
ValidDecision == { d \in StoredDecision : d.valid }
SavingStates == [pc : {"clearing", "opening", "writing", "flushing", "publishing",
                       "verifying", "failing"},
                 result : {"none"}, decision : ValidDecision]
RestingStates == [pc : {"idle"}, result : {"none", "InvalidDocument", "CleanupFailed", "Success",
                                           "WriteFailed", "Missing", "Removed"}]
Contents == {NoStoreFile, EmptyFile, TornFile} \cup { DocumentOf(d) : d \in ValidDecision }
GrantIsExact(g) ==
  g.code = "Success" => g.decision.valid /\ g.decision.identity = g.at
                        /\ g.decision.origin = "LocalApproved"
(* While no two saves have met: the one that is under way, if any, has what  *)
(* it wrote where it will publish it, and the file says what one save said.  *)
Alone == \A s, o \in Saver : saver[s].pc # "idle" /\ saver[o].pc # "idle" => s = o
StagedIs(s) ==
  /\ saver[s].pc = "writing" => stagingFile.content = EmptyFile
  /\ saver[s].pc \in {"flushing", "publishing"} =>
       stagingFile.content = DocumentOf(saver[s].decision)
  /\ saver[s].pc = "verifying" => decisionFile = DocumentOf(saver[s].decision)
FileIsWhole == decisionFile \in {NoStoreFile} \cup { DocumentOf(d) : d \in ValidDecision }
NoOverlap == ~deaths.overlap => Alone /\ FileIsWhole /\ \A s \in Saver : StagedIs(s)
StoreInv ==
  /\ decisionFile \in Contents
  /\ stagingFile \in [content : Contents, open : SUBSET Saver]
  /\ saver \in [Saver -> SavingStates \cup RestingStates]
  /\ gameIdentity \in 1..MaxIdentity
  /\ deaths \in [count : Nat, overlap : BOOLEAN]
  /\ GrantIsExact(granted) /\ NoOverlap

LEMMA StoreSuffices == StoreInv => StoreTypeOK /\ DecisionsAreExact
<1> SUFFICES ASSUME StoreInv PROVE StoreTypeOK /\ DecisionsAreExact OBVIOUS
<1>1. StoreTypeOK
  BY DEF StoreInv, StoreTypeOK, Contents, SavingStates, RestingStates, NoStoreFile, EmptyFile,
         TornFile, DocumentOf
<1>2. \A c \in {NoStoreFile} \cup { DocumentOf(d) : d \in ValidDecision } : c = NoStoreFile \/ Decodes(c)
  BY DEF ValidDecision, DocumentOf, Decodes
<1>3. ~deaths.overlap => decisionFile = NoStoreFile \/ Decodes(decisionFile)
  BY <1>2 DEF StoreInv, NoOverlap, FileIsWhole
<1>4. \A s \in Saver : saver[s].pc = "verifying" /\ ~deaths.overlap =>
                          decisionFile = DocumentOf(saver[s].decision)
  BY DEF StoreInv, NoOverlap, StagedIs
<1>5. GrantIsExact(granted)  BY DEF StoreInv
<1> QED  BY <1>1, <1>3, <1>4, <1>5 DEF DecisionsAreExact, GrantIsExact

LEMMA StoreStarts == StoreInit => StoreInv
<1> SUFFICES ASSUME StoreInit PROVE StoreInv OBVIOUS
<1>1. /\ decisionFile \in Contents /\ stagingFile \in [content : Contents, open : SUBSET Saver]
      /\ deaths \in [count : Nat, overlap : BOOLEAN] /\ gameIdentity \in 1..MaxIdentity
  BY StoreAssumption DEF StoreInit, Contents, NoStoreFile
<1>2. saver \in [Saver -> SavingStates \cup RestingStates] /\ \A s \in Saver : saver[s].pc = "idle"
  BY DEF StoreInit, RestingStates, IdleSaver
<1>3. GrantIsExact(granted)  BY DEF StoreInit, GrantIsExact
<1>4. NoOverlap  BY <1>2 DEF NoOverlap, Alone, FileIsWhole, StagedIs, StoreInit
<1> QED  BY <1>1, <1>2, <1>3, <1>4 DEF StoreInv

(* What a step of saver s has to show.                                      *)
OthersSave(s) == \A o \in Saver \ {s} : saver'[o] = saver[o]
SaveTypes ==
  /\ decisionFile' \in Contents
  /\ stagingFile' \in [content : Contents, open : SUBSET Saver]
  /\ saver' \in [Saver -> SavingStates \cup RestingStates]
  /\ deaths' \in [count : Nat, overlap : BOOLEAN]
Meets(s) == deaths.overlap \/ \E o \in Saver \ {s} : saver[o].pc # "idle"

(* One step of one saver: if it was not idle, no other was, as long as none  *)
(* met; if it begins, none is.                                              *)
LEMMA SaverSteps ==
  ASSUME NEW s \in Saver, StoreInv, SaveTypes, OthersSave(s), UNCHANGED <<gameIdentity, granted>>,
         ~deaths'.overlap => ~deaths.overlap /\ (saver[s].pc # "idle" \/ ~Meets(s)),
         ~deaths'.overlap => FileIsWhole' /\ StagedIs(s)'
  PROVE  StoreInv'
<1>1. ASSUME ~deaths'.overlap PROVE Alone' /\ FileIsWhole' /\ \A o \in Saver : StagedIs(o)'
  <2>1. \A o \in Saver \ {s} : saver[o].pc = "idle"
    BY <1>1 DEF StoreInv, NoOverlap, Alone, Meets
  <2>2. \A o \in Saver \ {s} : saver'[o].pc = "idle"
    BY <2>1 DEF OthersSave
  <2>3. Alone'  BY <2>2 DEF Alone
  <2>4. \A o \in Saver \ {s} : StagedIs(o)'  BY <2>2 DEF StagedIs
  <2> QED  BY <1>1, <2>3, <2>4
<1>2. NoOverlap'  BY <1>1 DEF NoOverlap
<1>3. GrantIsExact(granted)'  BY DEF StoreInv, GrantIsExact
<1> QED  BY <1>2, <1>3 DEF StoreInv, SaveTypes

LEMMA DocumentsDiffer ==
  \A d : DocumentOf(d) # EmptyFile /\ DocumentOf(d) # NoStoreFile /\ DocumentOf(d) # TornFile
  BY DEF DocumentOf, EmptyFile, NoStoreFile, TornFile

LEMMA SaverHas ==
  ASSUME NEW s \in Saver, StoreInv
  PROVE  /\ saver[s].pc # "idle" =>
              saver[s] = [pc |-> saver[s].pc, result |-> "none", decision |-> saver[s].decision]
              /\ saver[s].decision \in ValidDecision
              /\ DocumentOf(saver[s].decision) \in Contents
         /\ saver[s].pc = "idle" => saver[s] \in RestingStates
  BY DEF StoreInv, SavingStates, RestingStates, Contents

(* A saver goes on to another step, with the decision it saves.              *)
LEMMA GoesOn ==
  ASSUME NEW s \in Saver, StoreInv, saver[s].pc # "idle",
         NEW pc \in {"clearing", "opening", "writing", "flushing", "publishing", "verifying",
                     "failing"},
         saver' = [saver EXCEPT ![s].pc = pc]
  PROVE  /\ saver' \in [Saver -> SavingStates \cup RestingStates] /\ OthersSave(s)
         /\ saver'[s].pc = pc /\ saver'[s].decision = saver[s].decision
<1>1. saver[s] = [pc |-> saver[s].pc, result |-> "none", decision |-> saver[s].decision]
      /\ saver[s].decision \in ValidDecision
  BY SaverHas
<1>2. saver'[s] = [saver[s] EXCEPT !.pc = pc]  BY DEF StoreInv
<1>3. saver'[s] = [pc |-> pc, result |-> "none", decision |-> saver[s].decision]
  BY <1>1, <1>2
<1>4. saver'[s] \in SavingStates  BY <1>1, <1>3 DEF SavingStates
<1>5. OthersSave(s) /\ DOMAIN saver' = Saver /\ saver' = [o \in Saver |-> saver'[o]]
  BY DEF OthersSave, StoreInv
<1>6. \A o \in Saver : saver'[o] \in SavingStates \cup RestingStates
  BY <1>4, <1>5 DEF OthersSave, StoreInv
<1> QED  BY <1>3, <1>5, <1>6

LEMMA ComesToRest ==
  ASSUME NEW s \in Saver, StoreInv,
         NEW result \in {"none", "InvalidDocument", "CleanupFailed", "Success", "WriteFailed",
                         "Missing", "Removed"},
         saver' = [saver EXCEPT ![s] = [pc |-> "idle", result |-> result]]
  PROVE  /\ saver' \in [Saver -> SavingStates \cup RestingStates] /\ OthersSave(s)
         /\ StagedIs(s)'
<1>1. saver'[s] = [pc |-> "idle", result |-> result]  BY DEF StoreInv
<1>2. saver'[s] \in RestingStates /\ saver'[s].pc = "idle"  BY <1>1 DEF RestingStates
<1> QED  BY <1>2 DEF OthersSave, StoreInv, StagedIs

LEMMA BeginSaves ==
  ASSUME NEW s \in Saver, StoreInv, BeginSave(s)
  PROVE  StoreInv'
<1>1. deaths' = [deaths EXCEPT !.overlap = Meets(s)]  BY Zenon DEF BeginSave, Meets
<1>2. deaths'.overlap = Meets(s) /\ deaths'.count = deaths.count
      /\ deaths' \in [count : Nat, overlap : BOOLEAN]
  <2>1. Meets(s) \in BOOLEAN  BY DEF Meets, StoreInv
  <2> QED  BY <1>1, <2>1 DEF StoreInv
<1>3. ~deaths'.overlap => ~deaths.overlap /\ (saver[s].pc # "idle" \/ ~Meets(s))
  BY <1>2 DEF Meets
<1>4. PICK d \in StoredDecision :
        saver' = [saver EXCEPT ![s] = IF d.valid
                  THEN [pc |-> "clearing", result |-> "none", decision |-> d]
                  ELSE [pc |-> "idle", result |-> "InvalidDocument"]]
  BY DEF BeginSave
<1>5. saver'[s] \in SavingStates \cup RestingStates /\ saver'[s].pc \in {"clearing", "idle"}
  BY <1>4 DEF StoreInv, SavingStates, RestingStates, ValidDecision
<1>6. saver' \in [Saver -> SavingStates \cup RestingStates] /\ OthersSave(s)
  BY <1>4, <1>5 DEF StoreInv, OthersSave
<1>7. StagedIs(s)'  BY <1>5 DEF StagedIs
<1>8. ~deaths'.overlap => FileIsWhole'
  BY <1>3 DEF BeginSave, StoreInv, NoOverlap, FileIsWhole
<1>9. SaveTypes  BY <1>2, <1>6 DEF BeginSave, SaveTypes, StoreInv
<1> QED  BY <1>3, <1>6, <1>7, <1>8, <1>9, SaverSteps DEF BeginSave

LEMMA FileStays ==
  ASSUME StoreInv, UNCHANGED <<decisionFile, deaths>>
  PROVE  /\ decisionFile' \in Contents /\ deaths' \in [count : Nat, overlap : BOOLEAN]
         /\ ~deaths'.overlap => ~deaths.overlap /\ FileIsWhole'
  BY DEF StoreInv, NoOverlap, FileIsWhole

LEMMA StagingTyped ==
  ASSUME StoreInv
  PROVE  /\ [stagingFile EXCEPT !.content = NoStoreFile] \in [content : Contents, open : SUBSET Saver]
         /\ stagingFile \in [content : Contents, open : SUBSET Saver]
         /\ \A s \in Saver, c \in Contents :
              /\ [content |-> c, open |-> stagingFile.open \cup {s}]
                   \in [content : Contents, open : SUBSET Saver]
              /\ [open |-> stagingFile.open \ {s}, content |-> c]
                   \in [content : Contents, open : SUBSET Saver]
         /\ {NoStoreFile, EmptyFile, TornFile} \subseteq Contents
<1>1. {NoStoreFile, EmptyFile, TornFile} \subseteq Contents  BY DEF Contents
<1> QED  BY <1>1 DEF StoreInv

LEMMA ClearStagingSteps ==
  ASSUME NEW s \in Saver, StoreInv, ClearStaging(s) \/ OpenStaging(s)
  PROVE  StoreInv'
<1>1. saver[s].pc # "idle" /\ UNCHANGED <<decisionFile, gameIdentity, granted, deaths>>
  BY DEF ClearStaging, OpenStaging
<1>2. stagingFile' \in [content : Contents, open : SUBSET Saver]
  BY StagingTyped DEF ClearStaging, OpenStaging
<1>3. \/ saver' = [saver EXCEPT ![s].pc = "opening"]
      \/ saver' = [saver EXCEPT ![s].pc = "writing"] /\ stagingFile'.content = EmptyFile
      \/ saver' = [saver EXCEPT ![s].pc = "failing"]
      \/ saver' = [saver EXCEPT ![s] = [pc |-> "idle", result |-> "CleanupFailed"]]
  BY DEF ClearStaging, OpenStaging, EndSave
<1>4. saver' \in [Saver -> SavingStates \cup RestingStates] /\ OthersSave(s) /\ StagedIs(s)'
  <2>1. CASE saver' = [saver EXCEPT ![s].pc = "opening"]
    BY <1>1, <2>1, GoesOn DEF StagedIs
  <2>2. CASE saver' = [saver EXCEPT ![s].pc = "writing"] /\ stagingFile'.content = EmptyFile
    BY <1>1, <2>2, GoesOn DEF StagedIs
  <2>3. CASE saver' = [saver EXCEPT ![s].pc = "failing"]
    BY <1>1, <2>3, GoesOn DEF StagedIs
  <2>4. CASE saver' = [saver EXCEPT ![s] = [pc |-> "idle", result |-> "CleanupFailed"]]
    BY <2>4, ComesToRest
  <2> QED  BY <1>3, <2>1, <2>2, <2>3, <2>4
<1>5. SaveTypes  BY <1>1, <1>2, <1>4, FileStays DEF SaveTypes
<1> QED  BY <1>1, <1>4, <1>5, FileStays, SaverSteps

LEMMA WriteSteps ==
  ASSUME NEW s \in Saver, StoreInv, WriteDecision(s)
  PROVE  StoreInv'
<1> DEFINE mine == DocumentOf(saver[s].decision)
           written == [open |-> stagingFile.open \ {s},
                       content |-> IF stagingFile.content \in {EmptyFile, mine} THEN mine ELSE TornFile]
           half == [open |-> stagingFile.open \ {s}, content |-> TornFile]
<1>1. saver[s].pc = "writing" /\ UNCHANGED <<decisionFile, gameIdentity, granted, deaths>>
      /\ \/ stagingFile' = written /\ saver' = [saver EXCEPT ![s].pc = "flushing"]
         \/ stagingFile' = half /\ saver' = [saver EXCEPT ![s].pc = "failing"]
  BY DEF WriteDecision
<1>2. mine \in Contents  BY <1>1, SaverHas
<1>3. stagingFile' \in [content : Contents, open : SUBSET Saver]
  BY <1>1, <1>2, StagingTyped
<1>4. saver' \in [Saver -> SavingStates \cup RestingStates] /\ OthersSave(s)
      /\ (~deaths.overlap => StagedIs(s)')
  <2>1. CASE stagingFile' = written /\ saver' = [saver EXCEPT ![s].pc = "flushing"]
    <3>1. ~deaths.overlap => stagingFile.content = EmptyFile
      BY <1>1 DEF StoreInv, NoOverlap, StagedIs
    <3>2. ~deaths.overlap => stagingFile'.content = mine  BY <3>1, <2>1
    <3> QED  BY <1>1, <2>1, <3>2, GoesOn DEF StagedIs
  <2>2. CASE stagingFile' = half /\ saver' = [saver EXCEPT ![s].pc = "failing"]
    BY <1>1, <2>2, GoesOn DEF StagedIs
  <2> QED  BY <1>1, <2>1, <2>2
<1>5. SaveTypes  BY <1>1, <1>3, <1>4, FileStays DEF SaveTypes
<1> QED  BY <1>1, <1>4, <1>5, FileStays, SaverSteps

LEMMA FlushSteps ==
  ASSUME NEW s \in Saver, StoreInv, FlushStaging(s)
  PROVE  StoreInv'
<1>1. saver[s].pc = "flushing"
      /\ UNCHANGED <<decisionFile, stagingFile, gameIdentity, granted, deaths>>
      /\ \/ saver' = [saver EXCEPT ![s].pc = "publishing"]
         \/ saver' = [saver EXCEPT ![s].pc = "failing"]
  BY DEF FlushStaging
<1>2. saver' \in [Saver -> SavingStates \cup RestingStates] /\ OthersSave(s)
      /\ (~deaths.overlap => StagedIs(s)')
  <2>1. CASE saver' = [saver EXCEPT ![s].pc = "publishing"]
    <3>1. ~deaths.overlap => stagingFile.content = DocumentOf(saver[s].decision)
      BY <1>1 DEF StoreInv, NoOverlap, StagedIs
    <3> QED  BY <1>1, <2>1, <3>1, GoesOn DEF StagedIs
  <2>2. CASE saver' = [saver EXCEPT ![s].pc = "failing"]
    BY <1>1, <2>2, GoesOn DEF StagedIs
  <2> QED  BY <1>1, <2>1, <2>2
<1>3. stagingFile' \in [content : Contents, open : SUBSET Saver]  BY <1>1, StagingTyped
<1>5. SaveTypes  BY <1>1, <1>2, <1>3, FileStays DEF SaveTypes
<1> QED  BY <1>1, <1>2, <1>5, FileStays, SaverSteps

LEMMA PublishSteps ==
  ASSUME NEW s \in Saver, StoreInv, PublishStaging(s)
  PROVE  StoreInv'
<1>1. saver[s].pc = "publishing" /\ UNCHANGED <<gameIdentity, granted, deaths>>
      /\ \/ decisionFile' = stagingFile.content
            /\ stagingFile' = [stagingFile EXCEPT !.content = NoStoreFile]
            /\ saver' = [saver EXCEPT ![s].pc = "verifying"]
         \/ saver' = [saver EXCEPT ![s].pc = "failing"] /\ UNCHANGED <<decisionFile, stagingFile>>
  BY DEF PublishStaging
<1>2. CASE saver' = [saver EXCEPT ![s].pc = "failing"] /\ UNCHANGED <<decisionFile, stagingFile>>
  <2>1. saver' \in [Saver -> SavingStates \cup RestingStates] /\ OthersSave(s) /\ StagedIs(s)'
    BY <1>1, <1>2, GoesOn DEF StagedIs
  <2>2. SaveTypes  BY <1>1, <1>2, <2>1, FileStays, StagingTyped DEF SaveTypes
  <2> QED  BY <1>1, <1>2, <2>1, <2>2, FileStays, SaverSteps
<1>3. CASE decisionFile' = stagingFile.content
            /\ stagingFile' = [stagingFile EXCEPT !.content = NoStoreFile]
            /\ saver' = [saver EXCEPT ![s].pc = "verifying"]
  <2>1. saver[s].decision \in ValidDecision  BY <1>1, SaverHas
  <2>2. ~deaths.overlap => stagingFile.content = DocumentOf(saver[s].decision)
    BY <1>1 DEF StoreInv, NoOverlap, StagedIs
  <2>3. ~deaths'.overlap => FileIsWhole'
    BY <1>1, <1>3, <2>1, <2>2 DEF FileIsWhole
  <2>4. saver' \in [Saver -> SavingStates \cup RestingStates] /\ OthersSave(s)
        /\ (~deaths'.overlap => StagedIs(s)')
    BY <1>1, <1>3, <2>2, GoesOn DEF StagedIs
  <2>5. SaveTypes  BY <1>1, <1>3, <2>4, StagingTyped DEF SaveTypes, StoreInv
  <2> QED  BY <1>1, <2>3, <2>4, <2>5, SaverSteps
<1> QED  BY <1>1, <1>2, <1>3

LEMMA EndSteps ==
  ASSUME NEW s \in Saver, StoreInv, VerifyStaging(s) \/ FailAfterStaging(s)
  PROVE  StoreInv'
<1>1. saver[s].pc # "idle" /\ UNCHANGED <<decisionFile, gameIdentity, granted, deaths>>
  BY DEF VerifyStaging, FailAfterStaging
<1>2. stagingFile' \in [content : Contents, open : SUBSET Saver]
  BY StagingTyped DEF VerifyStaging, FailAfterStaging
<1>3. PICK result \in {"Success", "CleanupFailed", "WriteFailed"} :
        saver' = [saver EXCEPT ![s] = [pc |-> "idle", result |-> result]]
  BY DEF VerifyStaging, FailAfterStaging, EndSave
<1>4. saver' \in [Saver -> SavingStates \cup RestingStates] /\ OthersSave(s) /\ StagedIs(s)'
  BY <1>3, ComesToRest
<1>5. SaveTypes  BY <1>1, <1>2, <1>4, FileStays DEF SaveTypes
<1> QED  BY <1>1, <1>4, <1>5, FileStays, SaverSteps

LEMMA RemoveSteps ==
  ASSUME NEW s \in Saver, StoreInv, RemoveStore(s)
  PROVE  StoreInv'
<1>1. deaths' = [deaths EXCEPT !.overlap = Meets(s)]  BY Zenon DEF RemoveStore, Meets
<1>2. deaths'.overlap = Meets(s) /\ deaths' \in [count : Nat, overlap : BOOLEAN]
  <2>1. Meets(s) \in BOOLEAN  BY DEF Meets, StoreInv
  <2> QED  BY <1>1, <2>1 DEF StoreInv
<1>3. ~deaths'.overlap => ~deaths.overlap /\ (saver[s].pc # "idle" \/ ~Meets(s))
  BY <1>2 DEF Meets
<1>4. stagingFile' \in [content : Contents, open : SUBSET Saver]
  BY StagingTyped DEF RemoveStore
<1>5. PICK result \in {"Missing", "Removed", "CleanupFailed"} :
        saver' = [saver EXCEPT ![s] = [pc |-> "idle", result |-> result]]
  BY DEF RemoveStore, EndSave
<1>6. saver' \in [Saver -> SavingStates \cup RestingStates] /\ OthersSave(s) /\ StagedIs(s)'
  BY <1>5, ComesToRest
<1>7. FileIsWhole' /\ decisionFile' \in Contents  BY DEF RemoveStore, FileIsWhole, Contents
<1>8. SaveTypes  BY <1>2, <1>4, <1>6, <1>7 DEF SaveTypes
<1> QED  BY <1>3, <1>6, <1>7, <1>8, SaverSteps DEF RemoveStore

LEMMA DeathSteps ==
  ASSUME NEW s \in Saver, StoreInv, SaverDies(s)
  PROVE  StoreInv'
<1>1. saver[s].pc # "idle" /\ UNCHANGED <<decisionFile, gameIdentity, granted>>
      /\ deaths' = [deaths EXCEPT !.count = @ + 1]
      /\ saver' = [saver EXCEPT ![s] = [pc |-> "idle", result |-> "none"]]
  BY DEF SaverDies, IdleSaver
<1>2. deaths'.overlap = deaths.overlap /\ deaths' \in [count : Nat, overlap : BOOLEAN]
  BY <1>1 DEF StoreInv
<1>3. stagingFile.content \in Contents  BY DEF StoreInv
<1>4. stagingFile' \in [content : Contents, open : SUBSET Saver]
  BY <1>3, StagingTyped DEF SaverDies
<1>5. saver' \in [Saver -> SavingStates \cup RestingStates] /\ OthersSave(s) /\ StagedIs(s)'
  BY <1>1, ComesToRest
<1>6. decisionFile' \in Contents /\ (~deaths'.overlap => ~deaths.overlap /\ FileIsWhole')
  BY <1>1, <1>2 DEF StoreInv, NoOverlap, FileIsWhole
<1>7. SaveTypes  BY <1>2, <1>4, <1>5, <1>6 DEF SaveTypes
<1> QED  BY <1>1, <1>5, <1>6, <1>7, SaverSteps

LEMMA StoreUnchanging ==
  ASSUME StoreInv, UNCHANGED <<decisionFile, stagingFile, saver, deaths>>,
         gameIdentity' \in 1..MaxIdentity, GrantIsExact(granted)'
  PROVE  StoreInv'
<1>1. NoOverlap'  BY DEF StoreInv, NoOverlap, Alone, FileIsWhole, StagedIs
<1> QED  BY <1>1 DEF StoreInv

LEMMA ResolveSteps ==
  ASSUME StoreInv, Resolve
  PROVE  StoreInv'
<1>1. CASE decisionFile # NoStoreFile /\ Decodes(decisionFile)
  <2> DEFINE d == decisionFile.decision
  <2>1. d.valid  BY <1>1 DEF Decodes
  <2>2. granted' \in {[code |-> "InvalidStore"],
                      IF d.origin # "LocalApproved" THEN [code |-> "UntrustedOrigin"]
                      ELSE IF d.identity # gameIdentity THEN [code |-> "IdentityMismatch"]
                      ELSE [code |-> "Success", decision |-> d, at |-> gameIdentity]}
    BY <1>1 DEF Resolve
  <2>3. \/ granted' \in {[code |-> "InvalidStore"], [code |-> "UntrustedOrigin"],
                         [code |-> "IdentityMismatch"]}
        \/ /\ granted' = [code |-> "Success", decision |-> d, at |-> gameIdentity]
           /\ d.origin = "LocalApproved" /\ d.identity = gameIdentity
    BY <2>2
  <2>4. GrantIsExact(granted')  BY <2>1, <2>3 DEF GrantIsExact
  <2> QED  BY <2>4, StoreUnchanging DEF Resolve, StoreInv
<1>2. CASE ~(decisionFile # NoStoreFile /\ Decodes(decisionFile))
  <2>1. granted' \in {[code |-> "InvalidStore"], [code |-> "NotRequired"]}
    BY <1>2 DEF Resolve
  <2>2. GrantIsExact(granted')  BY <2>1 DEF GrantIsExact
  <2> QED  BY <2>2, StoreUnchanging DEF Resolve, StoreInv
<1> QED  BY <1>1, <1>2

LEMMA StoreSteps == StoreInv /\ [StoreNext]_storeVars => StoreInv'
<1> SUFFICES ASSUME StoreInv, [StoreNext]_storeVars PROVE StoreInv' OBVIOUS
<1>1. CASE UNCHANGED storeVars
  BY <1>1, StoreUnchanging DEF storeVars, StoreInv, GrantIsExact
<1>2. CASE IdentityChanges
  BY <1>2, StoreAssumption, StoreUnchanging DEF IdentityChanges, StoreInv, GrantIsExact
<1>3. CASE Resolve  BY <1>3, ResolveSteps
<1>4. ASSUME NEW s \in Saver,
             BeginSave(s) \/ ClearStaging(s) \/ OpenStaging(s) \/ WriteDecision(s)
             \/ FlushStaging(s) \/ PublishStaging(s) \/ VerifyStaging(s) \/ FailAfterStaging(s)
             \/ RemoveStore(s) \/ SaverDies(s)
      PROVE  StoreInv'
  BY <1>4, BeginSaves, ClearStagingSteps, WriteSteps, FlushSteps, PublishSteps, EndSteps, RemoveSteps,
     DeathSteps
<1> QED  BY <1>1, <1>2, <1>3, <1>4 DEF StoreNext

-----------------------------------------------------------------------------
(* Community packages.                                                      *)
Installation == [manifest : Manifest, policy : TrustPolicy]
(* The history is the part of the installations before the last one.        *)
HistoryIs(current, history, all) ==
  /\ (current = NoManifest) <=> (all = <<>>)
  /\ all = <<>> => history = <<>>
  /\ all # <<>> => /\ current = all[Len(all)].manifest /\ Len(history) < Len(all)
                   /\ \A i \in 1..Len(history) :
                        history[i] = all[Len(all) - 1 - Len(history) + i].manifest
AllTrusted(all) ==
  /\ \A i \in DOMAIN all :
       TrustedArtifact(all[i].manifest, all[i].manifest.hash, all[i].policy)
  /\ \A i \in 2..Len(all) :
       all[i].manifest.id = all[i - 1].manifest.id =>
         all[i].manifest.revision > all[i - 1].manifest.revision
PackagesTyped ==
  /\ community \in [current : Manifest \cup {NoManifest}, history : Seq(Manifest)]
  /\ Len(community.history) <= MaxHistory
  /\ policy \in TrustPolicy /\ packageSteps \in 0..MaxPackageStep
  /\ installs \in Seq(Installation)
CommunityInv ==
  /\ PackagesTyped /\ HistoryIs(community.current, community.history, installs)
  /\ AllTrusted(installs)

LEMMA CommunitySuffices == CommunityInv => CommunityTypeOK /\ PackagesAreTrusted
<1> SUFFICES ASSUME CommunityInv PROVE CommunityTypeOK /\ PackagesAreTrusted OBVIOUS
<1>1. CommunityTypeOK  BY DEF CommunityInv, PackagesTyped, CommunityTypeOK
<1>2. PackagesAreTrusted
  BY Zenon DEF CommunityInv, HistoryIs, AllTrusted, PackagesAreTrusted
<1> QED  BY <1>1, <1>2

LEMMA CommunityStarts == CommunityInit => CommunityInv
  BY CommunityAssumption DEF CommunityInit, CommunityInv, PackagesTyped, HistoryIs, AllTrusted

LEMMA ManifestsExist == NoManifest \notin Manifest
  BY DEF NoManifest, Manifest

(* The history after an installation: the one replaced at its end, and the  *)
(* oldest out.                                                              *)
LEMMA HistoryGrows ==
  ASSUME NEW old \in Seq(Manifest), NEW all \in Seq(Installation), NEW m \in Manifest,
         NEW p \in TrustPolicy, NEW current \in Manifest, HistoryIs(current, old, all),
         Len(old) <= MaxHistory
  PROVE  /\ HistoryIs(m, Kept(Append(old, current)), Append(all, [manifest |-> m, policy |-> p]))
         /\ Kept(Append(old, current)) \in Seq(Manifest)
         /\ Len(Kept(Append(old, current))) <= MaxHistory
<1> DEFINE more == Append(all, [manifest |-> m, policy |-> p])
           longer == Append(old, current)
<1>1. all # <<>>  BY ManifestsExist DEF HistoryIs
<1>2. /\ more \in Seq(Installation) /\ Len(more) = Len(all) + 1
      /\ more[Len(more)].manifest = m /\ more # <<>>
      /\ \A i \in 1..Len(all) : more[i] = all[i]
  BY DEF Installation
<1>3. /\ longer \in Seq(Manifest) /\ Len(longer) = Len(old) + 1
      /\ longer[Len(old) + 1] = current /\ \A i \in 1..Len(old) : longer[i] = old[i]
  OBVIOUS
<1>4. \A i \in 1..Len(longer) : longer[i] = more[Len(more) - 1 - Len(longer) + i].manifest
  <2> SUFFICES ASSUME NEW i \in 1..Len(longer)
               PROVE  longer[i] = more[Len(more) - 1 - Len(longer) + i].manifest
    OBVIOUS
  <2>1. /\ Len(old) \in Nat /\ Len(all) \in Nat /\ Len(old) < Len(all)
        /\ current = all[Len(all)].manifest
    BY <1>1 DEF HistoryIs
  <2>2. CASE i = Len(old) + 1
    <3>1. Len(more) - 1 - Len(longer) + i = Len(all)  BY <2>1, <2>2, <1>2, <1>3
    <3> QED  BY <2>1, <2>2, <3>1, <1>2, <1>3
  <2>3. CASE i \in 1..Len(old)
    <3>1. /\ Len(more) - 1 - Len(longer) + i = Len(all) - 1 - Len(old) + i
          /\ Len(all) - 1 - Len(old) + i \in 1..Len(all)
      BY <2>1, <2>3, <1>2, <1>3
    <3>2. old[i] = all[Len(all) - 1 - Len(old) + i].manifest
      BY <1>1, <2>3 DEF HistoryIs
    <3> QED  BY <2>3, <3>1, <3>2, <1>2, <1>3
  <2> QED  BY <2>1, <2>2, <2>3, <1>3
<1>5. Len(old) \in Nat /\ Len(all) \in Nat /\ Len(old) < Len(all)  BY <1>1 DEF HistoryIs
<1>6. m # NoManifest  BY ManifestsExist
<1> HIDE DEF more, longer
<1>7. CASE Len(longer) > MaxHistory
  <2> DEFINE rest == Tail(longer)
  <2>1. longer # <<>>  BY <1>3, <1>5
  <2>2. /\ rest \in Seq(Manifest) /\ Len(rest) = Len(longer) - 1
        /\ \A i \in 1..Len(rest) : rest[i] = longer[i + 1]
    BY <1>3, <2>1
  <2>3. Kept(longer) = rest  BY <1>7 DEF Kept
  <2> HIDE DEF rest
  <2>4. \A i \in 1..Len(rest) : rest[i] = more[Len(more) - 1 - Len(rest) + i].manifest
    <3> SUFFICES ASSUME NEW i \in 1..Len(rest)
                 PROVE  rest[i] = more[Len(more) - 1 - Len(rest) + i].manifest
      OBVIOUS
    <3>1. i + 1 \in 1..Len(longer) /\ rest[i] = longer[i + 1]  BY <2>2, <1>3, <1>5
    <3>2. Len(more) - 1 - Len(longer) + (i + 1) = Len(more) - 1 - Len(rest) + i
      BY <2>2, <1>2, <1>3, <1>5
    <3> QED  BY <3>1, <3>2, <1>4
  <2>5. Len(rest) < Len(more) /\ Len(rest) <= MaxHistory
    BY <2>2, <1>2, <1>3, <1>5, CommunityAssumption
  <2>6. HistoryIs(m, rest, more)  BY <2>4, <2>5, <1>2, <1>6 DEF HistoryIs
  <2> QED  BY <2>2, <2>3, <2>5, <2>6 DEF more, longer
<1>8. CASE ~(Len(longer) > MaxHistory)
  <2>1. Kept(longer) = longer  BY <1>8 DEF Kept
  <2>2. Len(longer) < Len(more) /\ Len(longer) <= MaxHistory
    BY <1>2, <1>3, <1>5, <1>8, CommunityAssumption
  <2>3. HistoryIs(m, longer, more)  BY <2>2, <1>2, <1>4, <1>6 DEF HistoryIs
  <2> QED  BY <1>3, <2>1, <2>2, <2>3 DEF more, longer
<1> QED  BY <1>7, <1>8

LEMMA InstallSteps == ASSUME CommunityInv, InstallOrUpdate PROVE CommunityInv'
<1>1. PICK m \in {m \in Manifest : m.schema /\ Newer(m)}, hash \in Hash :
        /\ TrustedArtifact(m, hash, policy)
        /\ community' = [current |-> m,
              history |-> IF community.current = NoManifest THEN community.history
                          ELSE Kept(Append(community.history, community.current))]
        /\ installs' = Append(installs, [manifest |-> m, policy |-> policy])
  BY DEF InstallOrUpdate
<1>2. /\ m \in Manifest /\ (community.current.id = m.id => m.revision > community.current.revision)
      /\ hash = m.hash /\ policy' = policy /\ packageSteps' \in 0..MaxPackageStep
  <2>1. m \in Manifest /\ Newer(m)  BY <1>1
  <2>2. hash = m.hash  BY <1>1, Zenon DEF TrustedArtifact
  <2>3. policy' = policy /\ packageSteps' = packageSteps + 1 /\ packageSteps < MaxPackageStep
    BY Zenon DEF InstallOrUpdate
  <2>4. packageSteps \in 0..MaxPackageStep  BY DEF CommunityInv, PackagesTyped
  <2>5. packageSteps' \in 0..MaxPackageStep  BY <2>3, <2>4, CommunityAssumption
  <2> QED  BY <2>1, <2>2, <2>3, <2>5, Zenon DEF Newer
<1>3. /\ community \in [current : Manifest \cup {NoManifest}, history : Seq(Manifest)]
      /\ policy \in TrustPolicy /\ installs \in Seq(Installation)
      /\ Len(community.history) <= MaxHistory
      /\ HistoryIs(community.current, community.history, installs)
  BY DEF CommunityInv, PackagesTyped
<1>4. [manifest |-> m, policy |-> policy] \in Installation  BY <1>2, <1>3 DEF Installation
<1>5. /\ installs' \in Seq(Installation) /\ Len(installs') = Len(installs) + 1
      /\ Len(installs) \in Nat /\ DOMAIN installs' = 1..(Len(installs) + 1)
      /\ DOMAIN installs = 1..Len(installs)
      /\ installs'[Len(installs) + 1] = [manifest |-> m, policy |-> policy]
      /\ \A i \in 1..Len(installs) : installs'[i] = installs[i]
  BY <1>1, <1>3, <1>4
<1>6. AllTrusted(installs')
  <2>1. TrustedArtifact(m, m.hash, policy)  BY <1>1, <1>2
  <2>2. \A i \in DOMAIN installs' :
          TrustedArtifact(installs'[i].manifest, installs'[i].manifest.hash, installs'[i].policy)
    <3> SUFFICES ASSUME NEW i \in DOMAIN installs'
                 PROVE  TrustedArtifact(installs'[i].manifest, installs'[i].manifest.hash,
                                        installs'[i].policy)
      OBVIOUS
    <3>1. CASE i = Len(installs) + 1
      <4>1. installs'[i].manifest = m /\ installs'[i].policy = policy  BY <3>1, <1>5
      <4> QED  BY <4>1, <2>1
    <3>2. CASE i \in 1..Len(installs)
      <4>1. installs'[i] = installs[i]  BY <3>2, <1>5
      <4>2. i \in DOMAIN installs  BY <3>2, <1>5
      <4>3. TrustedArtifact(installs[i].manifest, installs[i].manifest.hash, installs[i].policy)
        BY <4>2 DEF CommunityInv, AllTrusted
      <4> QED  BY <4>1, <4>3
    <3> QED  BY <3>1, <3>2, <1>5
  <2>3. \A i \in 2..Len(installs') :
          installs'[i].manifest.id = installs'[i - 1].manifest.id =>
            installs'[i].manifest.revision > installs'[i - 1].manifest.revision
    <3> SUFFICES ASSUME NEW i \in 2..Len(installs'),
                        installs'[i].manifest.id = installs'[i - 1].manifest.id
                 PROVE  installs'[i].manifest.revision > installs'[i - 1].manifest.revision
      OBVIOUS
    <3>1. CASE i = Len(installs) + 1
      <4>1. installs # <<>> /\ i - 1 = Len(installs) /\ i - 1 \in 1..Len(installs)
        BY <3>1, <1>3, <1>5
      <4>2. installs[Len(installs)].manifest = community.current
        BY <4>1, <1>3 DEF HistoryIs
      <4>3. installs'[i].manifest = m /\ installs'[i - 1].manifest = community.current
        BY <4>1, <4>2, <3>1, <1>5
      <4> QED  BY <4>3, <1>2
    <3>2. CASE i \in 2..Len(installs)
      <4>1. i \in 1..Len(installs) /\ i - 1 \in 1..Len(installs)  BY <3>2, <1>5
      <4> QED  BY <3>2, <4>1, <1>5 DEF CommunityInv, AllTrusted
    <3> QED  BY <3>1, <3>2, <1>5
  <2> QED  BY <2>2, <2>3 DEF AllTrusted
<1>7. CASE community.current = NoManifest
  <2>1. installs = <<>> /\ community.history = <<>>  BY <1>7, <1>3 DEF HistoryIs
  <2>2. community' = [current |-> m, history |-> <<>>]  BY <1>1, <1>7, <2>1
  <2>3. installs' # <<>> /\ Len(installs') = 1 /\ installs'[1].manifest = m
    <3>1. Len(installs) = 0  BY <2>1
    <3>2. Len(installs') = 1 /\ installs'[1] = [manifest |-> m, policy |-> policy]
      BY <3>1, <1>5
    <3> QED  BY <3>2
  <2>4. HistoryIs(community'.current, community'.history, installs')
    BY <2>2, <2>3, <1>2, ManifestsExist DEF HistoryIs
  <2>5. PackagesTyped'
    BY <2>2, <1>2, <1>3, <1>5, CommunityAssumption DEF PackagesTyped
  <2> QED  BY <2>4, <2>5, <1>6 DEF CommunityInv
<1>8. CASE community.current # NoManifest
  <2> DEFINE history == Kept(Append(community.history, community.current))
  <2>1. community.current \in Manifest /\ community.history \in Seq(Manifest)  BY <1>8, <1>3
  <2>2. /\ HistoryIs(m, history, installs') /\ history \in Seq(Manifest)
        /\ Len(history) <= MaxHistory
    BY <2>1, <1>1, <1>2, <1>3, HistoryGrows
  <2>3. community' = [current |-> m, history |-> history]  BY <1>1, <1>8
  <2> HIDE DEF history
  <2>4. PackagesTyped'  BY <2>2, <2>3, <1>2, <1>3, <1>5 DEF PackagesTyped
  <2> QED  BY <2>2, <2>3, <2>4, <1>6 DEF CommunityInv
<1> QED  BY <1>7, <1>8

LEMMA RollbackPackageSteps == ASSUME CommunityInv, RollbackPackage PROVE CommunityInv'
<1> DEFINE h == Len(community.history)
           n == Len(installs)
<1>1. /\ community.current # NoManifest /\ community.history # <<>>
      /\ community' = [current |-> community.history[h], history |-> SubSeq(community.history, 1, h - 1)]
      /\ installs' = SubSeq(installs, 1, n - 1) /\ UNCHANGED <<policy, packageSteps>>
  BY DEF RollbackPackage, Last, Front
<1>2. /\ community.history \in Seq(Manifest) /\ installs \in Seq(Installation)
      /\ policy \in TrustPolicy /\ packageSteps \in 0..MaxPackageStep /\ h <= MaxHistory
  BY DEF CommunityInv, PackagesTyped
<1>3. /\ h \in Nat /\ h >= 1 /\ n \in Nat /\ h < n /\ installs # <<>>
      /\ \A i \in 1..h : community.history[i] = installs[n - 1 - h + i].manifest
  <2>1. installs # <<>>  BY <1>1 DEF CommunityInv, HistoryIs
  <2>2. h \in Nat /\ h >= 1 /\ n \in Nat  BY <1>1, <1>2
  <2>3. HistoryIs(community.current, community.history, installs)  BY DEF CommunityInv
  <2>4. h < n /\ \A i \in 1..h : community.history[i] = installs[n - 1 - h + i].manifest
    BY <2>1, <2>3, Zenon DEF HistoryIs
  <2> QED  BY <2>1, <2>2, <2>4
<1>4. /\ installs' \in Seq(Installation) /\ Len(installs') = n - 1 /\ installs' # <<>>
      /\ DOMAIN installs' = 1..(n - 1) /\ DOMAIN installs = 1..n
      /\ \A i \in 1..(n - 1) : installs'[i] = installs[i]
  <2>1. 1 \in 1..(n - 1)  BY <1>3
  <2>2. /\ SubSeq(installs, 1, n - 1) \in Seq(Installation)
        /\ Len(SubSeq(installs, 1, n - 1)) = n - 1
        /\ \A i \in 1..(n - 1) : SubSeq(installs, 1, n - 1)[i] = installs[i]
    BY <1>2, <1>3
  <2>3. DOMAIN installs' = 1..(n - 1) /\ DOMAIN installs = 1..n  BY <1>1, <1>2, <2>2
  <2>5. installs' = SubSeq(installs, 1, n - 1)  BY <1>1
  <2>4. installs' # <<>>
    <3>1. n - 1 # 0
      <4> HIDE DEF n, h
      <4> QED  BY <1>3
    <3>2. Len(installs') = n - 1  BY <2>2, <2>5, Zenon
    <3> QED  BY <3>1, <3>2
  <2> QED  BY <2>2, <2>3, <2>4, <2>5, Zenon
<1>5. /\ community'.current = community.history[h] /\ community'.current \in Manifest
      /\ community'.history \in Seq(Manifest) /\ Len(community'.history) = h - 1
      /\ \A i \in 1..(h - 1) : community'.history[i] = community.history[i]
      /\ community' = [current |-> community'.current, history |-> community'.history]
  BY <1>1, <1>2, <1>3
<1> HIDE DEF h, n
<1>6. community'.current = installs'[n - 1].manifest
  <2>1. h \in 1..h /\ n - 1 - h + h = n - 1 /\ n - 1 \in 1..(n - 1)  BY <1>3
  <2>2. community.history[h] = installs[n - 1].manifest  BY <2>1, <1>3
  <2> QED  BY <2>1, <2>2, <1>4, <1>5
<1>7. \A i \in 1..(h - 1) : community'.history[i] = installs'[(n - 1) - 1 - (h - 1) + i].manifest
  <2> SUFFICES ASSUME NEW i \in 1..(h - 1)
               PROVE  community'.history[i] = installs'[(n - 1) - 1 - (h - 1) + i].manifest
    OBVIOUS
  <2>1. /\ i \in 1..h /\ (n - 1) - 1 - (h - 1) + i = n - 1 - h + i
        /\ n - 1 - h + i \in 1..(n - 1)
    BY <1>3
  <2> QED  BY <2>1, <1>3, <1>4, <1>5
<1>8. HistoryIs(community'.current, community'.history, installs')
  <2>1. community'.current # NoManifest  BY <1>5, ManifestsExist
  <2>2. h - 1 < n - 1  BY <1>3
  <2> QED  BY <2>1, <2>2, <1>4, <1>5, <1>6, <1>7 DEF HistoryIs
<1>9. AllTrusted(installs')
  <2>1. \A i \in DOMAIN installs' : i \in DOMAIN installs /\ installs'[i] = installs[i]
    BY <1>3, <1>4
  <2>2. \A i \in 2..Len(installs') : /\ i \in 2..Len(installs) /\ installs'[i] = installs[i]
                                     /\ installs'[i - 1] = installs[i - 1]
    BY <1>3, <1>4 DEF n
  <2> QED  BY <2>1, <2>2 DEF CommunityInv, AllTrusted
<1>10. h - 1 <= MaxHistory  BY <1>2, <1>3, CommunityAssumption
<1>11. PackagesTyped'  BY <1>1, <1>2, <1>4, <1>5, <1>10 DEF PackagesTyped
<1> QED  BY <1>8, <1>9, <1>11 DEF CommunityInv

LEMMA CommunitySteps == CommunityInv /\ [CommunityNext]_communityVars => CommunityInv'
<1> SUFFICES ASSUME CommunityInv, [CommunityNext]_communityVars PROVE CommunityInv' OBVIOUS
<1>1. CASE InstallOrUpdate  BY <1>1, InstallSteps
<1>2. CASE RollbackPackage  BY <1>2, RollbackPackageSteps
<1>3. CASE ClearPackages
  BY <1>3, CommunityAssumption
  DEF ClearPackages, CommunityInv, PackagesTyped, HistoryIs, AllTrusted
<1>4. CASE PolicyChanges
  <2>1. policy' \in TrustPolicy
    BY <1>4 DEF PolicyChanges, CommunityInv, PackagesTyped, TrustPolicy
  <2> QED  BY <1>4, <2>1 DEF PolicyChanges, CommunityInv, PackagesTyped
<1>5. CASE UNCHANGED communityVars
  BY <1>5 DEF communityVars, CommunityInv, PackagesTyped
<1> QED  BY <1>1, <1>2, <1>3, <1>4, <1>5 DEF CommunityNext

-----------------------------------------------------------------------------
(* Requirements and the plans they authorize.                               *)
Evidence == [id : Nat, version : 1..2, build : Nat, month : Nat, protected : BOOLEAN,
             report : SessionReport]
WorldTyped ==
  /\ game \in [version : 1..2, exe : 1..2, current : BOOLEAN] /\ game.version <= game.exe
  /\ changes \in 0..MaxChange
  /\ provider \in [revision : 1..(changes + 1), available : BOOLEAN, launches : BOOLEAN]
  /\ month \in 1..(changes + 1) /\ build \in 1..(changes + 1)
LibraryIs ==
  /\ IsFiniteSet(library) /\ Cardinality(library) <= MaxEvidence /\ library \subseteq Evidence
  /\ \A e \in library : e.id \in 1..Cardinality(library)
  /\ \A e, f \in library : e.id = f.id => e = f
(* What a record says of its evidence, it was shown by that evidence.       *)
RecordIsBound(record) ==
  \E e \in library :
    /\ record.evidenceId = e.id /\ record.seats = e.report.seats
    /\ "controller" \in record.capabilities => e.report.controllers = {"Success"}
RecordsAreBound ==
  /\ requirements \in {NoRecord, CorruptStore}
     \/ (RecordIsBound(requirements) /\ requirements.revision \in 1..MaxPublish)
  /\ review = Nothing \/ review.evidence \in library
  /\ loaded = Nothing \/ RecordIsBound(loaded.record)
PlansTyped ==
  /\ launchPlan = Nothing \/ launchPlan.seats \in 1..2
  /\ accepted = Nothing \/ accepted.seats \in 1..2
RequirementInv == WorldTyped /\ LibraryIs /\ RecordsAreBound /\ PlansTyped

LEMMA RequirementSuffices == RequirementInv => RequirementTypeOK
<1> SUFFICES ASSUME RequirementInv PROVE RequirementTypeOK OBVIOUS
<1>1. \A n \in 1..(changes + 1) : n \in 1..(MaxChange + 1)
  BY RequirementAssumption DEF RequirementInv, WorldTyped
<1>2. game \in [version : 1..2, exe : 1..2, current : BOOLEAN]
      /\ provider.revision \in 1..(MaxChange + 1) /\ provider.available \in BOOLEAN
      /\ month \in 1..(MaxChange + 1) /\ build \in 1..(MaxChange + 1)
  BY <1>1 DEF RequirementInv, WorldTyped
<1>3. \A e \in library : e.id \in 1..MaxEvidence /\ e.report \in SessionReport
  <2>1. Cardinality(library) \in Nat  BY FS_CardinalityType DEF RequirementInv, LibraryIs
  <2> QED  BY <2>1, RequirementAssumption DEF RequirementInv, LibraryIs, Evidence
<1> QED  BY <1>2, <1>3 DEF RequirementTypeOK, RequirementInv, RecordsAreBound, PlansTyped

LEMMA RequirementStarts == RequirementInit => RequirementInv
<1> SUFFICES ASSUME RequirementInit PROVE RequirementInv OBVIOUS
<1>1. WorldTyped  BY RequirementAssumption DEF RequirementInit, WorldTyped
<1>2. LibraryIs  BY RequirementAssumption, FS_EmptySet DEF RequirementInit, LibraryIs
<1> QED  BY <1>1, <1>2 DEF RequirementInit, RequirementInv, RecordsAreBound, PlansTyped

LEMMA RecordsStay ==
  ASSUME RecordsAreBound, UNCHANGED <<library, requirements, review, loaded>>
  PROVE  RecordsAreBound'
  BY DEF RecordsAreBound, RecordIsBound

(* The world changes.                                                       *)
LEMMA WorldSteps ==
  ASSUME RequirementInv,
         UpdateGame \/ ReconcileCatalog \/ RefreshProvider \/ Upgrade \/ MonthPasses \/ Approve
         \/ RemoveRequirements
  PROVE  RequirementInv'
<1>1. changes' = changes + 1 /\ changes < MaxChange /\ UNCHANGED <<library, review, loaded, launchPlan, accepted>>
  BY DEF UpdateGame, ReconcileCatalog, RefreshProvider, Upgrade, MonthPasses, Approve,
         RemoveRequirements, Change, worldVars
<1>2. /\ game \in [version : 1..2, exe : 1..2, current : BOOLEAN] /\ game.version <= game.exe
      /\ changes \in 0..MaxChange
      /\ provider \in [revision : 1..(changes + 1), available : BOOLEAN, launches : BOOLEAN]
      /\ month \in 1..(changes + 1) /\ build \in 1..(changes + 1)
  BY DEF RequirementInv, WorldTyped
<1>3. changes' \in 0..MaxChange /\ \A n \in 1..(changes + 1) : n \in 1..(changes' + 1) /\ n + 1 \in 1..(changes' + 1)
  BY <1>1, <1>2, RequirementAssumption
<1>4. game' \in [version : 1..2, exe : 1..2, current : BOOLEAN] /\ game'.version <= game'.exe
  <2>1. CASE UpdateGame
    <3>1. PICK v \in {game.version, game.version + 1} :
            game.exe < 2 /\ game' = [game EXCEPT !.exe = 2, !.version = v]
      BY <2>1 DEF UpdateGame
    <3>2. game' = [version |-> v, exe |-> 2, current |-> game.current]  BY <1>2, <3>1
    <3>3. v \in 1..2  BY <1>2, <3>1
    <3> QED  BY <1>2, <3>2, <3>3
  <2>2. CASE ReconcileCatalog
    <3>1. game' = [version |-> game.version, exe |-> game.exe, current |-> ~game.current]
      BY <1>2, <2>2 DEF ReconcileCatalog
    <3> QED  BY <1>2, <3>1
  <2>3. CASE ~UpdateGame /\ ~ReconcileCatalog
    <3>1. game' = game
      BY <2>3 DEF RefreshProvider, Upgrade, MonthPasses, Approve, RemoveRequirements, worldVars
    <3> QED  BY <3>1, <1>2
  <2> QED  BY <2>1, <2>2, <2>3
<1>5. provider' \in [revision : 1..(changes' + 1), available : BOOLEAN, launches : BOOLEAN]
  <2>1. CASE RefreshProvider
    <3>1. PICK up \in BOOLEAN :
            provider' = [provider EXCEPT !.available = up,
                                         !.revision = IF up THEN @ + 1 ELSE @]
      BY <2>1 DEF RefreshProvider
    <3>2. provider' = [revision |-> IF up THEN provider.revision + 1 ELSE provider.revision,
                       available |-> up, launches |-> provider.launches]
      BY <1>2, <3>1
    <3> QED  BY <1>2, <1>3, <3>2
  <2>2. CASE ~RefreshProvider
    <3>1. provider' = provider
      BY <2>2 DEF UpdateGame, ReconcileCatalog, Upgrade, MonthPasses, Approve, RemoveRequirements,
                  worldVars
    <3> QED  BY <3>1, <1>2, <1>3
  <2> QED  BY <2>1, <2>2
<1>6. month' \in 1..(changes' + 1) /\ build' \in 1..(changes' + 1)
  <2>1. month' \in {month, month + 1} /\ build' \in {build, build + 1}
    BY DEF UpdateGame, ReconcileCatalog, RefreshProvider, Upgrade, MonthPasses, Approve,
           RemoveRequirements, worldVars
  <2> QED  BY <2>1, <1>2, <1>3
<1>7. requirements' = requirements \/ requirements' = NoRecord
  BY DEF UpdateGame, ReconcileCatalog, RefreshProvider, Upgrade, MonthPasses, Approve,
         RemoveRequirements
<1>8. WorldTyped'  BY <1>3, <1>4, <1>5, <1>6 DEF WorldTyped
<1>9. RecordsAreBound'
  BY <1>1, <1>7 DEF RequirementInv, RecordsAreBound, RecordIsBound
<1> QED  BY <1>1, <1>8, <1>9 DEF RequirementInv, LibraryIs, PlansTyped

LEMMA EvidenceSteps ==
  ASSUME RequirementInv, NEW r \in SessionReport, NEW protected \in BOOLEAN,
         RecordEvidence(r, protected)
  PROVE  RequirementInv'
<1> DEFINE new == [id |-> Cardinality(library) + 1, version |-> game.version, build |-> build,
                   month |-> month, protected |-> protected, report |-> r]
<1>1. /\ Cardinality(library) < MaxEvidence /\ library' = library \cup {new}
      /\ UNCHANGED <<game, provider, month, build, changes, requirements, review, loaded,
                     launchPlan, accepted>>
  BY DEF RecordEvidence, worldVars
<1>2. /\ IsFiniteSet(library) /\ library \subseteq Evidence /\ Cardinality(library) \in Nat
      /\ \A e \in library : e.id \in 1..Cardinality(library)
      /\ \A e, f \in library : e.id = f.id => e = f
  BY FS_CardinalityType DEF RequirementInv, LibraryIs
<1>3. new \in Evidence /\ new.id = Cardinality(library) + 1
  BY <1>2, RequirementAssumption DEF RequirementInv, WorldTyped, Evidence
<1> HIDE DEF new
<1>4. new \notin library /\ \A e \in library : e.id # new.id  BY <1>2, <1>3
<1>5. IsFiniteSet(library') /\ Cardinality(library') = Cardinality(library) + 1
  BY <1>1, <1>2, <1>4, FS_AddElement
<1>6. LibraryIs'
  <2>1. Cardinality(library') <= MaxEvidence  BY <1>1, <1>2, <1>5, RequirementAssumption
  <2>2. library' \subseteq Evidence  BY <1>1, <1>2, <1>3
  <2>3. \A e \in library' : e.id \in 1..Cardinality(library')
    <3>1. \A e \in library : e.id \in 1..(Cardinality(library) + 1)  BY <1>2
    <3>2. new.id \in 1..(Cardinality(library) + 1)  BY <1>2, <1>3
    <3> QED  BY <1>1, <1>5, <3>1, <3>2
  <2>4. \A e, f \in library' : e.id = f.id => e = f  BY <1>1, <1>2, <1>4
  <2> QED  BY <1>5, <2>1, <2>2, <2>3, <2>4 DEF LibraryIs
<1>7. RecordsAreBound'
  BY <1>1 DEF RequirementInv, RecordsAreBound, RecordIsBound
<1> QED  BY <1>1, <1>6, <1>7 DEF RequirementInv, WorldTyped, PlansTyped

LEMMA PublishSuffices ==
  ASSUME RequirementInv, NEW saved \in BOOLEAN, PublishRequirement(saved),
         requirements' # requirements
  PROVE  /\ RecordIsBound(requirements') /\ requirements'.revision \in 1..MaxPublish
         /\ requirements # CorruptStore
         /\ requirements # NoRecord =>
              /\ requirements'.revision > requirements.revision
              /\ requirements'.evidenceId = requirements.evidenceId =>
                   requirements'.exe = requirements.exe
<1> DEFINE record == ReviewedRecord(IF requirements = NoRecord THEN 1 ELSE requirements.revision + 1)
<1>1. /\ review # Nothing /\ requirements # CorruptStore
      /\ requirements # NoRecord => ~Rebinds(requirements, record)
      /\ record.revision <= MaxPublish /\ requirements' = record
  BY DEF PublishRequirement
<1>2. requirements # NoRecord => requirements.revision \in 1..MaxPublish
  BY <1>1 DEF RequirementInv, RecordsAreBound
<1>3. /\ record.revision = IF requirements = NoRecord THEN 1 ELSE requirements.revision + 1
      /\ record.evidenceId = review.evidence.id
      /\ record.seats = review.evidence.report.seats
      /\ record.capabilities = DerivedCapabilities(review.evidence.report, review.provider)
  BY Zenon DEF ReviewedRecord
<1>4. review.evidence \in library  BY <1>1 DEF RequirementInv, RecordsAreBound
<1>5. "controller" \in record.capabilities => review.evidence.report.controllers = {"Success"}
  <2>1. \A x, d : "controller" \in DerivedCapabilities(x, d) => x.controllers = {"Success"}
    BY DEF DerivedCapabilities
  <2> QED  BY <2>1, <1>3
<1> HIDE DEF record
<1>6. RecordIsBound(record)  BY <1>3, <1>4, <1>5 DEF RecordIsBound
<1>7. record.revision \in 1..MaxPublish /\ (requirements # NoRecord => record.revision > requirements.revision)
  BY <1>1, <1>2, <1>3, RequirementAssumption
<1>8. requirements # NoRecord /\ record.evidenceId = requirements.evidenceId =>
        record.exe = requirements.exe
  BY <1>1 DEF Rebinds
<1> QED  BY <1>1, <1>6, <1>7, <1>8

LEMMA LaunchSteps ==
  ASSUME RequirementInv,
         \/ \E e \in library, needs \in NeedChoice : OpenReview(e, needs)
         \/ \E saved \in BOOLEAN : PublishRequirement(saved)
         \/ \E reader \in {"launcher", "check"} : LoadRequirements(reader)
         \/ ResolveForLauncher
         \/ \E s \in LaunchSelection, answered \in 1..provider.revision : CompilePlan(s, answered)
         \/ CheckPlan \/ FinishLaunch
  PROVE  RequirementInv'
<1>1. UNCHANGED <<game, provider, month, build, changes, library>>
  BY DEF OpenReview, PublishRequirement, LoadRequirements, ResolveForLauncher, CompilePlan,
         CheckPlan, FinishLaunch, worldVars
<1>2. WorldTyped' /\ LibraryIs'  BY <1>1 DEF RequirementInv, WorldTyped, LibraryIs
<1>3. (requirements' \in {NoRecord, CorruptStore}
         \/ (RecordIsBound(requirements') /\ requirements'.revision \in 1..MaxPublish))
      /\ (review' = Nothing \/ review'.evidence \in library)
      /\ (loaded' = Nothing \/ RecordIsBound(loaded'.record))
      /\ PlansTyped'
  <2>1. CASE \E e \in library, needs \in NeedChoice : OpenReview(e, needs)
    BY <2>1 DEF OpenReview, RequirementInv, RecordsAreBound, PlansTyped
  <2>2. CASE \E saved \in BOOLEAN : PublishRequirement(saved)
    <3>1. PICK saved \in BOOLEAN : PublishRequirement(saved)  BY <2>2
    <3>2. review' = Nothing /\ UNCHANGED <<loaded, launchPlan, accepted>>
      BY <3>1 DEF PublishRequirement
    <3>3. \/ requirements' = requirements
          \/ (RecordIsBound(requirements') /\ requirements'.revision \in 1..MaxPublish)
      BY <3>1, PublishSuffices
    <3> QED  BY <3>2, <3>3 DEF RequirementInv, RecordsAreBound, PlansTyped
  <2>3. CASE \E reader \in {"launcher", "check"} : LoadRequirements(reader)
    <3>1. /\ requirements \notin {NoRecord, CorruptStore} /\ loaded'.record = requirements
          /\ UNCHANGED <<requirements, review, launchPlan, accepted>>
      BY <2>3 DEF LoadRequirements
    <3> QED  BY <3>1 DEF RequirementInv, RecordsAreBound, PlansTyped
  <2>4. CASE ResolveForLauncher
    BY <2>4 DEF ResolveForLauncher, RequirementInv, RecordsAreBound, PlansTyped
  <2>5. CASE \E s \in LaunchSelection, answered \in 1..provider.revision : CompilePlan(s, answered)
    <3>1. PICK s \in LaunchSelection :
            launchPlan'.seats = s.seats /\ UNCHANGED <<requirements, review, loaded, accepted>>
      BY <2>5 DEF CompilePlan
    <3> QED  BY <3>1, RequirementAssumption DEF RequirementInv, RecordsAreBound, PlansTyped
  <2>6. CASE CheckPlan
    <3>1. accepted' \in {launchPlan, Nothing} /\ launchPlan' = Nothing /\ loaded' = Nothing
          /\ UNCHANGED <<requirements, review>>
      BY <2>6, Zenon DEF CheckPlan
    <3> QED  BY <3>1 DEF RequirementInv, RecordsAreBound, PlansTyped
  <2>7. CASE FinishLaunch
    BY <2>7 DEF FinishLaunch, RequirementInv, RecordsAreBound, PlansTyped
  <2> QED  BY <2>1, <2>2, <2>3, <2>4, <2>5, <2>6, <2>7
<1>4. RecordsAreBound'  BY <1>1, <1>3 DEF RecordsAreBound, RecordIsBound
<1> QED  BY <1>2, <1>3, <1>4 DEF RequirementInv

LEMMA RequirementSteps == RequirementInv /\ [RequirementNext]_requirementVars => RequirementInv'
<1> SUFFICES ASSUME RequirementInv, [RequirementNext]_requirementVars PROVE RequirementInv' OBVIOUS
<1>1. CASE UNCHANGED requirementVars
  BY <1>1, RecordsStay DEF requirementVars, RequirementInv, WorldTyped, LibraryIs, PlansTyped
<1>2. CASE RequirementNext
  BY <1>2, WorldSteps, EvidenceSteps, LaunchSteps, Zenon DEF RequirementNext
<1> QED  BY <1>1, <1>2

(* A step of the component does what AcceptedPlansAuthorized and               *)
(* EvidenceStaysBound say.                                                    *)
LEMMA BoundSteps ==
  ASSUME RequirementInv, [RequirementNext]_requirementVars, requirements' # requirements,
         requirements # NoRecord, requirements' # NoRecord
  PROVE  /\ requirements'.revision > requirements.revision
         /\ requirements'.evidenceId = requirements.evidenceId =>
              requirements'.exe = requirements.exe
<1>1. PICK saved \in BOOLEAN : PublishRequirement(saved)
  BY Zenon DEF RequirementNext, requirementVars, UpdateGame, ReconcileCatalog, RefreshProvider, Upgrade,
         MonthPasses, Approve, RemoveRequirements, RecordEvidence, OpenReview, LoadRequirements,
         ResolveForLauncher, CompilePlan, CheckPlan, FinishLaunch
<1> QED  BY <1>1, PublishSuffices

(* A record that resolves: its evidence shows what it asks for.               *)
LEMMA ResolvedShows ==
  ASSUME RequirementInv, NEW record, RecordIsBound(record), RequirementResolves(record)
  PROVE  \E e \in library :
           /\ e.id = record.evidenceId /\ record.seats = e.report.seats
           /\ e.report.origin = "Physical" /\ e.version = game.version /\ e.build = build
           /\ e.month <= month /\ month - e.month <= StaleAfterMonths
           /\ record.exe = game.exe /\ record.metadataRevision = provider.revision
           /\ CapabilitiesCover(record) /\ ResultCoversRequirements(record, e)
           /\ "controller" \in record.capabilities => e.report.controllers = {"Success"}
           /\ "highRisk" \in record.needs =>
                \E a \in approvals : ApprovalMatches(a, record)
<1>1. PICK e \in library :
        /\ record.evidenceId = e.id /\ record.seats = e.report.seats
        /\ "controller" \in record.capabilities => e.report.controllers = {"Success"}
  BY DEF RecordIsBound
<1> DEFINE found == { x \in library : x.id = record.evidenceId }
           chosen == CHOOSE x \in found : TRUE
           Reason(code, holds) == IF holds THEN {code} ELSE {}
<1>2. e \in found  BY <1>1
<1>3. chosen \in found  BY <1>2
<1>4. chosen = e  BY <1>1, <1>3 DEF RequirementInv, LibraryIs
<1>5. found # {}  BY <1>2
<1>6. /\ Reason("GameIdentityMismatch", record.version # game.version \/ record.exe # game.exe) = {}
      /\ Reason("StaleProviderRevision", provider.revision # record.metadataRevision) = {}
      /\ Reason("UntrustedLocalEvidenceOrigin",
                ~OriginAllowed(ProductionContext.trust, chosen.report.origin)) = {}
      /\ Reason("EvidenceEnvironmentMismatch",
                chosen.version # record.version \/ chosen.build # ProductionContext.build) = {}
      /\ Reason("FutureOrStaleLocalEvidence",
                chosen.month > ProductionContext.month
                \/ ProductionContext.month - chosen.month > ProductionContext.horizon) = {}
      /\ Reason("InsufficientCapabilityEvidence",
                ~CapabilitiesCover(record) \/ ~ResultCoversRequirements(record, chosen)) = {}
      /\ Reason("ProtectedApprovalRequired",
                /\ "highRisk" \in record.needs
                /\ Cardinality({ a \in approvals : ApprovalMatches(a, record) }) # 1) = {}
  <2> HIDE DEF Reason
  <2>1. Blocked(record, game, provider, library, approvals, ProductionContext) = {}
    BY DEF RequirementResolves
  <2> QED  BY <2>1, <1>5 DEF Blocked, Reason
<1>7. /\ ~(record.version # game.version \/ record.exe # game.exe)
      /\ provider.revision = record.metadataRevision
      /\ OriginAllowed("PhysicalOnly", e.report.origin)
      /\ e.version = record.version /\ e.build = build
      /\ ~(e.month > month) /\ ~(month - e.month > StaleAfterMonths)
      /\ CapabilitiesCover(record) /\ ResultCoversRequirements(record, e)
      /\ "highRisk" \in record.needs =>
           Cardinality({ a \in approvals : ApprovalMatches(a, record) }) = 1
  <2>1. \A code, holds : (IF holds THEN {code} ELSE {}) = {} => ~holds  OBVIOUS
  <2> QED  BY <1>4, <1>6, <2>1 DEF ProductionContext
<1>8. e.month <= month /\ month - e.month <= StaleAfterMonths
  BY <1>7, RequirementAssumption DEF RequirementInv, WorldTyped, LibraryIs, Evidence
<1>9. "highRisk" \in record.needs => \E a \in approvals : ApprovalMatches(a, record)
  <2>1. ASSUME "highRisk" \in record.needs, \A a \in approvals : ~ApprovalMatches(a, record)
        PROVE  FALSE
    <3>1. { a \in approvals : ApprovalMatches(a, record) } = {}  BY <2>1
    <3> QED  BY <3>1, <2>1, <1>7, FS_EmptySet
  <2> QED  BY <2>1
<1> QED  BY <1>1, <1>7, <1>8, <1>9 DEF OriginAllowed

LEMMA CheckedPlans ==
  ASSUME RequirementInv, [RequirementNext]_requirementVars, accepted' # Nothing,
         accepted # accepted'
  PROVE  PlanIsAuthorized(accepted', loaded.record)
<1>1. CheckPlan
  BY Zenon DEF RequirementNext, requirementVars, UpdateGame, ReconcileCatalog, RefreshProvider, Upgrade,
         MonthPasses, Approve, RemoveRequirements, RecordEvidence, OpenReview, LoadRequirements,
         ResolveForLauncher, CompilePlan, PublishRequirement, FinishLaunch
<1> DEFINE record == loaded.record
           plan == accepted'
<1>2. /\ loaded # Nothing /\ plan = launchPlan /\ RequirementResolves(record)
      /\ PlanMatches(plan, record)
  BY <1>1 DEF CheckPlan
<1>3. RecordIsBound(record)  BY <1>2 DEF RequirementInv, RecordsAreBound
<1>4. PICK e \in library :
        /\ e.id = record.evidenceId /\ record.seats = e.report.seats
        /\ e.report.origin = "Physical" /\ e.version = game.version /\ e.build = build
        /\ e.month <= month /\ month - e.month <= StaleAfterMonths
        /\ record.exe = game.exe /\ record.metadataRevision = provider.revision
        /\ CapabilitiesCover(record) /\ ResultCoversRequirements(record, e)
        /\ "controller" \in record.capabilities => e.report.controllers = {"Success"}
        /\ "highRisk" \in record.needs => \E a \in approvals : ApprovalMatches(a, record)
  BY <1>2, <1>3, ResolvedShows
<1> HIDE DEF record, plan
<1>5. /\ plan.metadataRevision = provider.revision /\ plan.seats <= e.report.seats
      /\ plan.requirement.needs = record.needs
  BY <1>2, <1>4 DEF PlanMatches
<1>6. e.month \in (month - StaleAfterMonths)..month
  BY <1>4, RequirementAssumption DEF RequirementInv, WorldTyped, LibraryIs, Evidence
<1>7. e.report \in SessionReport  BY DEF RequirementInv, LibraryIs, Evidence
<1>8. e.report.started
  <2>1. Status(e.report, "launch") = "Pass"  BY <1>4 DEF ResultCoversRequirements
  <2>2. Status(e.report, "launch") = IF e.report.started THEN "Pass" ELSE "Fail"  BY DEF Status
  <2> QED  BY <2>1, <2>2
<1>9. "input" \in record.needs => e.report.input = "exact"
  <2> SUFFICES ASSUME "input" \in record.needs PROVE e.report.input = "exact" OBVIOUS
  <2>1. Status(e.report, "input") = "Pass"  BY <1>4 DEF ResultCoversRequirements
  <2>2. Status(e.report, "input") = IF IsolationVerdict(e.report) = "InsufficientEvidence"
                                    THEN "NotMeasured" ELSE IsolationVerdict(e.report)
    BY DEF Status
  <2>3. IsolationVerdict(e.report) = "Pass"  BY <2>1, <2>2
  <2>4. e.report.input \in {"crossed", "lossy", "exact"}  BY <1>7, RequirementAssumption
  <2> QED  BY <2>3, <2>4 DEF IsolationVerdict
<1>10. "controller" \in record.needs => e.report.controllers = {"Success"}
  BY <1>4 DEF CapabilitiesCover
<1>11. "recovery" \in record.needs =>
         e.report.final = "ReturnedToWindows" /\ e.report.rollback = "verified"
  <2> SUFFICES ASSUME "recovery" \in record.needs
               PROVE  e.report.final = "ReturnedToWindows" /\ e.report.rollback = "verified"
    OBVIOUS
  <2>1. Status(e.report, "cleanExit") = "Pass" /\ Status(e.report, "rollback") = "Pass"
    BY <1>4 DEF ResultCoversRequirements
  <2>2. /\ Status(e.report, "cleanExit") =
             [ReturnedToWindows |-> "Pass", RecoveryRequired |-> "Fail",
              Running |-> "NotMeasured"][e.report.final]
        /\ Status(e.report, "rollback") =
             [verified |-> "Pass", failed |-> "Fail", none |-> "NotMeasured"][e.report.rollback]
    BY DEF Status
  <2>3. /\ e.report.final \in {"ReturnedToWindows", "RecoveryRequired", "Running"}
        /\ e.report.rollback \in {"verified", "failed", "none"}
    BY <1>7, RequirementAssumption
  <2> QED  BY <2>1, <2>2, <2>3
<1>12. e.protected =>
         \E a \in approvals : a.evidenceId = e.id /\ a.metadataRevision = provider.revision
  BY <1>4 DEF ResultCoversRequirements, ApprovalMatches
<1> QED  BY <1>4, <1>5, <1>6, <1>8, <1>9, <1>10, <1>11, <1>12 DEF PlanIsAuthorized, record, plan

-----------------------------------------------------------------------------
(* The types of the profiles and of a setup on its way.                     *)
(* A document with its parts, the names in it among those there are.          *)
IsDocument(d) ==
  /\ d = [seats |-> d.seats, management |-> d.management, players |-> d.players,
          games |-> d.games, setups |-> d.setups]
  /\ d.players \subseteq ProfilePlayer /\ d.games \subseteq ProfileGame
  /\ d.setups = [n \in SetupName |-> d.setups[n]]
  /\ \A n \in SetupName : d.setups[n] \in Setup \cup {NoSetup2}

ProfileTyped == ProfileTypeOK /\ IsDocument(documents)

LEMMA ProfileTypesStart == ProfileInit => ProfileTyped
<1> SUFFICES ASSUME ProfileInit PROVE ProfileTyped  OBVIOUS
<1>1. PICK r \in SeatRecipe :
        documents = [seats |-> [n \in ProfileSeat |->
                                 IF n = 1 THEN CHOOSE q \in SeatRecipe : ValidSeat(q) /\ q.active
                                 ELSE r], management |-> 1,
                    players |-> ProfilePlayer, games |-> ProfileGame,
                    setups |-> [n \in SetupName |->
                      [game |-> CHOOSE g \in ProfileGame : TRUE, compatibility |-> "current",
                       instances |-> 2]]]
  BY DEF ProfileInit
<1>2. (CHOOSE g \in ProfileGame : TRUE) \in ProfileGame  BY ProfileBounds
<1> DEFINE s == [game |-> CHOOSE g \in ProfileGame : TRUE, compatibility |-> "current",
                 instances |-> 2]
<1>3. s \in Setup  BY <1>2 DEF Setup
<1>4. /\ documents.players = ProfilePlayer /\ documents.games = ProfileGame
      /\ documents.setups = [n \in SetupName |-> s]
      /\ documents = [seats |-> documents.seats, management |-> documents.management,
                      players |-> documents.players, games |-> documents.games,
                      setups |-> documents.setups]
  BY <1>1
<1> HIDE DEF s
<1>5. IsDocument(documents)  BY <1>3, <1>4 DEF IsDocument
<1>6. ValidDocuments(documents) /\ choice = <<>> /\ profileEdits = 0  BY DEF ProfileInit
<1>7. choice \in UNION { [1..n -> Binding] : n \in 0..2 }
  <2>1. choice \in [1..0 -> Binding]  BY <1>6
  <2> QED BY <2>1
<1> QED BY <1>4, <1>5, <1>6, <1>7, ProfileBounds DEF ProfileTyped, ProfileTypeOK

(* What a save does to a document, one part of it or two.                     *)
LEMMA EditedDocuments ==
  ASSUME NEW d, IsDocument(d)
  PROVE  /\ \A n, r, m : IsDocument([d EXCEPT !.seats[n] = r, !.management = m])
         /\ \A p \in SUBSET ProfilePlayer : IsDocument([d EXCEPT !.players = p])
         /\ \A g \in SUBSET ProfileGame : IsDocument([d EXCEPT !.games = g])
         /\ \A n \in SetupName, s \in Setup \cup {NoSetup2} : IsDocument([d EXCEPT !.setups[n] = s])
<1>1. ASSUME NEW n, NEW r, NEW m, NEW e, e = [d EXCEPT !.seats[n] = r, !.management = m]
      PROVE  IsDocument(e)
  <2>1. e = [seats |-> e.seats, management |-> e.management, players |-> d.players,
             games |-> d.games, setups |-> d.setups]
    BY <1>1 DEF IsDocument
  <2> QED BY <2>1 DEF IsDocument
<1>2. ASSUME NEW p \in SUBSET ProfilePlayer, NEW e, e = [d EXCEPT !.players = p]
      PROVE  IsDocument(e)
  <2>1. e = [seats |-> d.seats, management |-> d.management, players |-> p,
             games |-> d.games, setups |-> d.setups]
    BY <1>2 DEF IsDocument
  <2> QED BY <2>1 DEF IsDocument
<1>3. ASSUME NEW g \in SUBSET ProfileGame, NEW e, e = [d EXCEPT !.games = g]
      PROVE  IsDocument(e)
  <2>1. e = [seats |-> d.seats, management |-> d.management, players |-> d.players,
             games |-> g, setups |-> d.setups]
    BY <1>3 DEF IsDocument
  <2> QED BY <2>1 DEF IsDocument
<1>4. ASSUME NEW n \in SetupName, NEW s \in Setup \cup {NoSetup2}, NEW e,
             e = [d EXCEPT !.setups[n] = s]
      PROVE  IsDocument(e)
  <2>1. e = [seats |-> d.seats, management |-> d.management, players |-> d.players,
             games |-> d.games, setups |-> [d.setups EXCEPT ![n] = s]]
    BY <1>4 DEF IsDocument
  <2>2. e.setups = [m \in SetupName |-> e.setups[m]]
        /\ \A m \in SetupName : e.setups[m] = IF m = n THEN s ELSE d.setups[m]
    BY <2>1 DEF IsDocument
  <2> QED BY <2>1, <2>2 DEF IsDocument
<1> QED BY <1>1, <1>2, <1>3, <1>4, Zenon

(* The second binding of a setup, as it is made of the first.                 *)
LEMMA SecondBinding ==
  ASSUME NEW b \in Binding, NEW second \in ProfileSeat, NEW q \in ProfilePlayer, NEW c,
         c = [b EXCEPT !.seat = second, !.player = q, !.instance = 1]
  PROVE  c \in Binding
<1>1. c = [seat |-> second, player |-> q, game |-> b.game, setup |-> b.setup, instance |-> 1]
  BY DEF Binding
<1> QED BY <1>1 DEF Binding, ProfileSeat

LEMMA ProfileTypesStep == ProfileTyped /\ [ProfileNext]_profileVars => ProfileTyped'
<1> SUFFICES ASSUME ProfileTyped, [ProfileNext]_profileVars PROVE ProfileTyped'  OBVIOUS
<1>1. IsDocument(documents) /\ ProfileTypeOK  BY DEF ProfileTyped
<1>2. ASSUME NEW d, IsDocument(d), Replace(d) PROVE ProfileTyped'
  <2>1. /\ profileEdits < MaxProfileEdit /\ profileEdits' = profileEdits + 1 /\ choice' = choice
        /\ documents' = IF ValidDocuments(d) THEN d ELSE documents
    BY <1>2 DEF Replace
  <2>2. IsDocument(documents') /\ ValidDocuments(documents')
    BY <1>1, <1>2, <2>1, Zenon DEF ProfileTypeOK
  <2>3. documents'.players \subseteq ProfilePlayer /\ documents'.games \subseteq ProfileGame
    BY <2>2 DEF IsDocument
  <2>4. profileEdits' \in 0..MaxProfileEdit  BY <1>1, <2>1, ProfileBounds DEF ProfileTypeOK
  <2> QED BY <1>1, <2>1, <2>2, <2>3, <2>4 DEF ProfileTyped, ProfileTypeOK
<1>3. CASE SaveSeats \/ SavePlayers \/ SaveGames \/ SaveSetups
  <2>1. CASE SaveSeats  BY <2>1, <1>1, <1>2, EditedDocuments, Zenon DEF SaveSeats
  <2>2. CASE SavePlayers  BY <2>2, <1>1, <1>2, EditedDocuments, Zenon DEF SavePlayers
  <2>3. CASE SaveGames  BY <2>3, <1>1, <1>2, EditedDocuments, Zenon DEF SaveGames
  <2>4. CASE SaveSetups  BY <2>4, <1>1, <1>2, EditedDocuments, Zenon DEF SaveSetups
  <2> QED BY <1>3, <2>1, <2>2, <2>3, <2>4
<1>4. ASSUME choice' \in UNION { [1..n -> Binding] : n \in 0..2 },
             UNCHANGED <<documents, profileEdits>>
      PROVE  ProfileTyped'
  BY <1>1, <1>4 DEF ProfileTyped, ProfileTypeOK
<1>5. ASSUME NEW b \in Binding, NEW c \in Binding
      PROVE  <<b>> \in UNION { [1..n -> Binding] : n \in 0..2 }
             /\ <<b, c>> \in UNION { [1..n -> Binding] : n \in 0..2 }
  <2>1. <<b>> \in [1..1 -> Binding] /\ <<b, c>> \in [1..2 -> Binding]  OBVIOUS
  <2>2. 1 \in 0..2 /\ 2 \in 0..2  OBVIOUS
  <2> QED BY <2>1, <2>2, Zenon
<1>6. CASE SelectSetup
  <2>1. PICK n \in SetupName, first, second \in ProfileSeat, p, q \in ProfilePlayer :
          /\ documents.setups[n] # NoSetup2
          /\ LET b == [seat |-> first, player |-> p, game |-> documents.setups[n].game,
                        setup |-> n, instance |-> 0]
                 c == [b EXCEPT !.seat = second, !.player = q, !.instance = 1]
             IN choice' = IF second < first THEN <<c, b>> ELSE <<b, c>>
    BY <1>6 DEF SelectSetup
  <2> DEFINE b == [seat |-> first, player |-> p, game |-> documents.setups[n].game,
                    setup |-> n, instance |-> 0]
             c == [b EXCEPT !.seat = second, !.player = q, !.instance = 1]
  <2>2. choice' = <<b, c>> \/ choice' = <<c, b>>  BY <2>1
  <2>3. documents.setups[n].game \in ProfileGame  BY <1>1, <2>1 DEF IsDocument, Setup
  <2>4. b \in Binding  BY <2>3 DEF Binding, ProfileSeat
  <2>5. c \in Binding  BY <2>4, SecondBinding
  <2> HIDE DEF b, c
  <2>6. UNCHANGED <<documents, profileEdits>>  BY <1>6 DEF SelectSetup
  <2> QED BY <2>2, <2>4, <2>5, <2>6, <1>4, <1>5
<1>7. CASE ReadSelection
  <2>1. PICK b \in Binding, c \in Binding : choice' = <<b, c>> \/ choice' = <<b>>
    BY <1>7 DEF ReadSelection
  <2>2. UNCHANGED <<documents, profileEdits>>  BY <1>7 DEF ReadSelection
  <2> QED BY <2>1, <2>2, <1>4, <1>5
<1>8. CASE Compile \/ UNCHANGED profileVars
  <2>1. UNCHANGED <<documents, choice, profileEdits>>
    BY <1>8, Zenon DEF Compile, profileVars
  <2> QED BY <2>1, <1>1, <1>4 DEF ProfileTypeOK
<1> QED BY <1>3, <1>6, <1>7, <1>8 DEF ProfileNext

-----------------------------------------------------------------------------
PortableTyped ==
  editor.edits \in 0..MaxEdit /\ (imported = NoImport \/ imported.result = "done")

LEMMA PortableTypesSuffice == PortableInv /\ PortableTyped => PortableTypeOK
  BY DEF PortableInv, CarriedInv, PortableTyped, PortableTypeOK

LEMMA PortableTypesStart == PortableInit => PortableTyped
  BY EditAssumption DEF PortableInit, PortableTyped

LEMMA PortableTypesStep ==
  PortableInv /\ PortableTyped /\ [PortableNext]_portableVars => PortableTyped'
<1> SUFFICES ASSUME PortableInv, PortableTyped, [PortableNext]_portableVars
             PROVE  PortableTyped'
  OBVIOUS
<1>1. /\ editor.edits \in 0..MaxEdit /\ DOMAIN editor = {"committed", "draft", "edits"}
      /\ imported = NoImport \/ imported.result = "done"
  BY DEF PortableTyped, PortableInv, EditorShaped
<1>2. CASE SetInstance
  <2>1. PICK i \in InstanceIndex, r \in EditRecipe, text \in BOOLEAN :
          editor' = [editor EXCEPT !.edits = @ + 1, !.draft.text = text,
                    !.draft.paths = [p \in Place |-> IF p[1] = i THEN r[p[2]] ELSE @[p]]]
    BY <1>2 DEF SetInstance
  <2>2. editor.edits < MaxEdit /\ imported' = imported  BY <1>2 DEF SetInstance
  <2>3. editor'.edits = editor.edits + 1  BY <1>1, <2>1
  <2>4. editor'.edits \in 0..MaxEdit  BY <1>1, <2>2, <2>3, EditAssumption
  <2> QED BY <1>1, <2>2, <2>4 DEF PortableTyped
<1>3. CASE SaveDraft
  <2>1. editor' = [editor EXCEPT !.committed = editor.draft] /\ imported' = imported
    BY <1>3 DEF SaveDraft
  <2>2. editor'.edits = editor.edits  BY <1>1, <2>1
  <2> QED BY <1>1, <2>1, <2>2 DEF PortableTyped
<1>4. CASE Import
  <2>1. imported'.result = "done" /\ editor' = editor  BY <1>4 DEF Import
  <2> QED BY <1>1, <2>1 DEF PortableTyped
<1>5. CASE Export \/ Alter \/ Decode \/ GameChanges \/ UNCHANGED portableVars
  <2>1. UNCHANGED <<editor, imported>>
    BY <1>5 DEF Export, Alter, Decode, GameChanges, portableVars
  <2> QED BY <1>1, <2>1 DEF PortableTyped
<1> QED BY <1>2, <1>3, <1>4, <1>5 DEF PortableNext

-----------------------------------------------------------------------------
(* The components together: one of them runs, with its invariant, and the    *)
(* others stay as they are.                                                  *)
EffectsInv ==
  /\ part = "attachment" => AttachmentInv
  /\ part = "start" => StartInv
  /\ part = "processes" => GroupInv
  /\ part = "activation" => ActivationInv
  /\ part = "check" => CheckInv
  /\ part = "sharing" => ShareInv
  /\ part = "decisions" => StoreInv
  /\ part = "packages" => CommunityInv
  /\ part = "authorization" => RequirementInv

LEMMA EffectsStart == ComponentsInit => EffectsInv
<1> SUFFICES ASSUME ComponentsInit PROVE EffectsInv  OBVIOUS
<1>1. /\ AttachmentInit
      /\ part = "start" => ProcessLaunchInit
      /\ part = "processes" => ProcessGroupInit
      /\ part = "activation" => ActivationInit
      /\ part = "check" => CheckInit
      /\ part = "sharing" => ShareInit
      /\ part = "decisions" => StoreInit
      /\ part = "packages" => CommunityInit
      /\ part = "authorization" => RequirementInit
  BY Zenon DEF ComponentsInit
<1> QED
  BY <1>1, AttachmentStarts, StartStarts, GroupStarts, ActivationStarts, CheckStarts, ShareStarts,
     StoreStarts, CommunityStarts, RequirementStarts
  DEF EffectsInv

(* A step of the components is one of the part that runs.                    *)
LEMMA StepOfTheEffect ==
  ASSUME [ComponentsNext]_componentsVars
  PROVE  /\ part' = part
         /\ part = "attachment" => [AttachmentNext]_attachmentVars
         /\ part = "start" => [ProcessLaunchNext]_startVars
         /\ part = "processes" => [ProcessGroupNext]_processVars
         /\ part = "activation" => [ActivationNext]_activationVars
         /\ part = "check" => [CheckNext]_checkVars
         /\ part = "sharing" => [ShareNext]_shareVars
         /\ part = "decisions" => [StoreNext]_storeVars
         /\ part = "packages" => [CommunityNext]_communityVars
         /\ part = "authorization" => [RequirementNext]_requirementVars
<1>1. CASE UNCHANGED componentsVars
  <2>1. UNCHANGED <<part, attachmentVars, startVars, processVars, activationVars, checkVars,
                    shareVars, storeVars, communityVars, requirementVars>>
    BY <1>1 DEF componentsVars
  <2> QED BY <2>1
<1>2. CASE ComponentsNext
  <2>1. part' = part  BY <1>2 DEF ComponentsNext, PartsStill
  <2>2. /\ part = "attachment" => AttachmentNext
        /\ part = "start" => ProcessLaunchNext
        /\ part = "processes" => ProcessGroupNext
        /\ part = "activation" => ActivationNext
    BY <1>2 DEF ComponentsNext
  <2>3. /\ part = "check" => CheckNext
        /\ part = "sharing" => ShareNext
        /\ part = "decisions" => StoreNext
        /\ part = "packages" => CommunityNext
        /\ part = "authorization" => RequirementNext
    BY <1>2 DEF ComponentsNext
  <2> QED BY <2>1, <2>2, <2>3
<1> QED BY <1>1, <1>2

LEMMA EffectsStep == EffectsInv /\ [ComponentsNext]_componentsVars => EffectsInv'
<1> SUFFICES ASSUME EffectsInv, [ComponentsNext]_componentsVars PROVE EffectsInv'  OBVIOUS
<1>1. part' = part  BY StepOfTheEffect
<1>2. part = "attachment" => AttachmentInv'  BY StepOfTheEffect, AttachmentSteps DEF EffectsInv
<1>3. part = "start" => StartInv'  BY StepOfTheEffect, StartSteps DEF EffectsInv
<1>4. part = "processes" => GroupInv'  BY StepOfTheEffect, GroupSteps DEF EffectsInv
<1>5. part = "activation" => ActivationInv'  BY StepOfTheEffect, ActivationSteps DEF EffectsInv
<1>6. part = "check" => CheckInv'  BY StepOfTheEffect, CheckSteps DEF EffectsInv
<1>7. part = "sharing" => ShareInv'  BY StepOfTheEffect, ShareSteps DEF EffectsInv
<1>8. part = "decisions" => StoreInv'  BY StepOfTheEffect, StoreSteps DEF EffectsInv
<1>9. part = "packages" => CommunityInv'  BY StepOfTheEffect, CommunitySteps DEF EffectsInv
<1>10. part = "authorization" => RequirementInv'
  BY StepOfTheEffect, RequirementSteps DEF EffectsInv
<1> QED
  BY <1>1, <1>2, <1>3, <1>4, <1>5, <1>6, <1>7, <1>8, <1>9, <1>10 DEF EffectsInv

(* What changes a component's state is a step of that component.             *)
LEMMA OnlyItsPartChanges ==
  ASSUME [ComponentsNext]_componentsVars
  PROVE  /\ ~UNCHANGED attachmentVars => part = "attachment"
         /\ ~UNCHANGED processVars => part = "processes"
         /\ ~UNCHANGED shareVars => part = "sharing"
         /\ ~UNCHANGED requirementVars => part = "authorization"
<1>1. CASE UNCHANGED componentsVars
  <2>1. UNCHANGED <<attachmentVars, processVars, shareVars, requirementVars>>
    BY <1>1 DEF componentsVars
  <2> QED BY <2>1
<1>2. CASE ComponentsNext
  <2>1. PartsStill  BY <1>2 DEF ComponentsNext
  <2> QED BY <2>1 DEF PartsStill
<1> QED BY <1>1, <1>2

(* What is attached for a Seat is attached for it alone and a registration   *)
(* that comes late takes nothing back; a Seat whose activation ended is      *)
(* cleaned up; the processes taken for a game's are its own until all have   *)
(* ended, and whose authority it is moves to later ones only; a process that *)
(* was started has an owner; a check leaves none behind.                     *)
THEOREM EffectsStayOwned == ComponentsSpec => EffectsAreOwned
<1>1. EffectsInv => /\ part = "attachment" => AttachmentsDistinct
                    /\ part = "activation" => SeatsAreCleaned
                    /\ part = "processes" => ProcessTreeIsExact
                    /\ part = "start" => NoStartIsLost
                    /\ part = "check" => CheckLeavesNothing
  BY AttachmentSuffices, ActivationSuffices, GroupSuffices, StartSuffices, CheckSuffices
  DEF EffectsInv
<1>2. EffectsInv /\ [ComponentsNext]_componentsVars =>
        [\A s \in AttachedSeat :
           \A r \in acceptedLast'[s] \ acceptedLast[s], last \in acceptedLast[s] :
             r.session = last.session =>
               \/ r.sessionGen > last.sessionGen
               \/ r.sessionGen = last.sessionGen /\ r.epoch > last.epoch]_attachmentVars
  <2> SUFFICES ASSUME EffectsInv, [ComponentsNext]_componentsVars, ~UNCHANGED attachmentVars
               PROVE  \A s \in AttachedSeat :
                        \A r \in acceptedLast'[s] \ acceptedLast[s], last \in acceptedLast[s] :
                          r.session = last.session =>
                            \/ r.sessionGen > last.sessionGen
                            \/ r.sessionGen = last.sessionGen /\ r.epoch > last.epoch
    OBVIOUS
  <2>1. AttachmentInv /\ AttachmentNext  BY OnlyItsPartChanges, StepOfTheEffect DEF EffectsInv
  <2> QED BY <2>1, AcceptedAreNewer
<1>3. EffectsInv /\ [ComponentsNext]_componentsVars =>
        [group' # group =>
           /\ group'.authority # group.authority =>
                /\ os[group.authority].gone
                /\ group.authority < group'.authority
                /\ group'.handoffs > group.handoffs
           /\ ~group.complete => ~group'.complete /\ group'.authority = group.authority
        ]_processVars
  <2> SUFFICES ASSUME EffectsInv, [ComponentsNext]_componentsVars, ~UNCHANGED processVars,
                      group' # group
               PROVE  /\ group'.authority # group.authority =>
                           /\ os[group.authority].gone
                           /\ group.authority < group'.authority
                           /\ group'.handoffs > group.handoffs
                      /\ ~group.complete =>
                           ~group'.complete /\ group'.authority = group.authority
    OBVIOUS
  <2>1. GroupInv /\ [ProcessGroupNext]_processVars
    BY OnlyItsPartChanges, StepOfTheEffect DEF EffectsInv
  <2>2. Follows(group, group')  BY <2>1, GroupSteps
  <2> QED BY <2>2 DEF Follows
<1> QED
  BY <1>1, <1>2, <1>3, EffectsStart, EffectsStep, PTL
  DEF ComponentsSpec, EffectsAreOwned, NoLateRegistration, HandoffsMoveDown

(* A launch plan is accepted for evidence on this machine that is current,   *)
(* and evidence bound to an executable is not bound to another; of the       *)
(* results only what the user agreed to leaves the machine; a decision is    *)
(* what a user saved; a package in use was trusted when it came.             *)
THEOREM ApprovalsStayExact == ComponentsSpec => ApprovalsAreExact
<1>1. EffectsInv => /\ part = "sharing" => SharingIsConsented
                    /\ part = "decisions" => DecisionsAreExact
                    /\ part = "packages" => PackagesAreTrusted
  BY ShareSuffices, StoreSuffices, CommunitySuffices DEF EffectsInv
<1>2. EffectsInv /\ [ComponentsNext]_componentsVars =>
        [accepted' # Nothing =>
           accepted = accepted' \/ PlanIsAuthorized(accepted', loaded.record)]_requirementVars
  <2> SUFFICES ASSUME EffectsInv, [ComponentsNext]_componentsVars, ~UNCHANGED requirementVars,
                      accepted' # Nothing, accepted # accepted'
               PROVE  PlanIsAuthorized(accepted', loaded.record)
    OBVIOUS
  <2>1. RequirementInv /\ [RequirementNext]_requirementVars
    BY OnlyItsPartChanges, StepOfTheEffect DEF EffectsInv
  <2> QED BY <2>1, CheckedPlans
<1>3. EffectsInv /\ [ComponentsNext]_componentsVars =>
        [(requirements' # requirements /\ requirements # NoRecord /\ requirements' # NoRecord)
         => /\ requirements'.revision > requirements.revision
            /\ requirements'.evidenceId = requirements.evidenceId =>
                 requirements'.exe = requirements.exe]_requirementVars
  <2> SUFFICES ASSUME EffectsInv, [ComponentsNext]_componentsVars, ~UNCHANGED requirementVars,
                      requirements' # requirements, requirements # NoRecord,
                      requirements' # NoRecord
               PROVE  /\ requirements'.revision > requirements.revision
                      /\ requirements'.evidenceId = requirements.evidenceId =>
                           requirements'.exe = requirements.exe
    OBVIOUS
  <2>1. RequirementInv /\ [RequirementNext]_requirementVars
    BY OnlyItsPartChanges, StepOfTheEffect DEF EffectsInv
  <2> QED BY <2>1, BoundSteps
<1>4. EffectsInv /\ [ComponentsNext]_componentsVars =>
        [left' # left =>
           \/ /\ left'.kind = "submission" /\ privacy.sharing
              /\ agreed.submission = left'.id
           \/ left'.kind = "export" /\ agreed.export = left'.id]_shareVars
  <2> SUFFICES ASSUME EffectsInv, [ComponentsNext]_componentsVars, ~UNCHANGED shareVars,
                      left' # left
               PROVE  \/ /\ left'.kind = "submission" /\ privacy.sharing
                         /\ agreed.submission = left'.id
                      \/ left'.kind = "export" /\ agreed.export = left'.id
    OBVIOUS
  <2>1. ShareInv /\ [ShareNext]_shareVars
    BY OnlyItsPartChanges, StepOfTheEffect DEF EffectsInv
  <2>2. Leaves  BY <2>1, LeavingIsAgreed
  <2> QED BY <2>2 DEF Leaves
<1> QED
  BY <1>1, <1>2, <1>3, <1>4, EffectsStart, EffectsStep, PTL
  DEF ComponentsSpec, ApprovalsAreExact, AcceptedPlansAuthorized, EvidenceStaysBound,
      LeavesAsAgreed

(* What the parts of SetupInv do not say of their types.                     *)
TypesInv ==
  /\ part \in Part
  /\ part = "profiles" => ProfileTyped
  /\ part = "exchange" => PortableTyped

ComponentsInv == SetupInv /\ EffectsInv /\ TypesInv

LEMMA ComponentsStart == ComponentsInit => ComponentsInv
<1> SUFFICES ASSUME ComponentsInit PROVE ComponentsInv  OBVIOUS
<1>1. /\ part \in Part
      /\ part = "profiles" => ProfileInit
      /\ part = "exchange" => PortableInit
  BY Zenon DEF ComponentsInit
<1>2. TypesInv  BY <1>1, ProfileTypesStart, PortableTypesStart DEF TypesInv
<1> QED BY <1>2, SetupStarts, EffectsStart DEF ComponentsInv

LEMMA ComponentsStep == ComponentsInv /\ [ComponentsNext]_componentsVars => ComponentsInv'
<1> SUFFICES ASSUME ComponentsInv, [ComponentsNext]_componentsVars PROVE ComponentsInv'
  OBVIOUS
<1>1. SetupInv /\ EffectsInv /\ TypesInv  BY DEF ComponentsInv
<1>2. SetupInv' /\ EffectsInv'  BY <1>1, SetupSteps, EffectsStep
<1>3. part' = part  BY StepOfThePart
<1>4. part = "profiles" => ProfileTyped'
  BY <1>1, StepOfThePart, ProfileTypesStep DEF TypesInv
<1>5. part = "exchange" => PortableTyped'
  BY <1>1, StepOfThePart, PortableTypesStep DEF SetupInv, TypesInv
<1>6. TypesInv'  BY <1>1, <1>3, <1>4, <1>5 DEF TypesInv
<1> QED BY <1>2, <1>6 DEF ComponentsInv

(* The component that runs keeps the types of its state.                     *)
THEOREM ComponentsTypeCorrect == ComponentsSpec => []ComponentsTypeOK
<1>1. ASSUME ComponentsInv PROVE ComponentsTypeOK
  <2>1. SetupInv /\ EffectsInv /\ TypesInv  BY <1>1 DEF ComponentsInv
  <2>2. /\ part = "installer" => InstallerTypeOK
        /\ part = "setup" => BootstrapTypeOK
        /\ part = "startup" => StartupTypeOK
        /\ part = "migration" => MigrationTypeOK
    BY <2>1 DEF SetupInv, InstallerInv, BootstrapInv, StartupInv, MigrationInv
  <2>3. /\ part = "materialization" => MaterialTypeOK
        /\ part = "exchange" => PortableTypeOK
        /\ part = "profiles" => ProfileTypeOK
    BY <2>1, MaterialInvSuffices, PortableTypesSuffice DEF SetupInv, TypesInv, ProfileTyped
  <2>4. /\ part = "attachment" => AttachmentTypeOK
        /\ part = "activation" => ActivationTypeOK
        /\ part = "processes" => ProcessTypeOK
        /\ part = "start" => ProcessLaunchTypeOK
        /\ part = "check" => CheckTypeOK
    BY <2>1, AttachmentSuffices, ActivationSuffices, GroupSuffices, StartSuffices, CheckSuffices
    DEF EffectsInv
  <2>5. /\ part = "authorization" => RequirementTypeOK
        /\ part = "sharing" => ShareTypeOK
        /\ part = "decisions" => StoreTypeOK
        /\ part = "packages" => CommunityTypeOK
    BY <2>1, RequirementSuffices, ShareSuffices, StoreSuffices, CommunitySuffices DEF EffectsInv
  <2>6. part \in Part  BY <2>1 DEF TypesInv
  <2>7. CASE part \in {"installer", "setup", "startup", "migration"}
    BY <2>2, <2>7 DEF ComponentsTypeOK
  <2>8. CASE part \in {"materialization", "exchange", "profiles", "authority"}
    BY <2>3, <2>8 DEF ComponentsTypeOK
  <2>9. CASE part \in {"attachment", "activation", "processes", "start", "check"}
    BY <2>4, <2>9 DEF ComponentsTypeOK
  <2>10. CASE part \in {"authorization", "sharing", "decisions", "packages"}
    BY <2>5, <2>10 DEF ComponentsTypeOK
  <2> QED BY <2>6, <2>7, <2>8, <2>9, <2>10 DEF Part
<1> QED BY <1>1, ComponentsStart, ComponentsStep, PTL DEF ComponentsSpec
=============================================================================
