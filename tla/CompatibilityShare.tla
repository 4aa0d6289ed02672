------------------------- MODULE CompatibilityShare -------------------------
(* The local history of compatibility results and what may leave it: a      *)
(* submission to the community and an export, each of exactly the bytes the *)
(* user was shown and approved.  A result's bytes are its identifier.       *)
EXTENDS Naturals, Sequences, SequencesExt, FiniteSets

CONSTANTS
  MaxResult, MaxPreview,   \* bounds: results recorded, previews prepared
  Retentions,              \* the retention limits a user may set
  DefaultRetention         \* kDefaultRetainedCompatibilityResults

(* A setting keeps at least one result.                                     *)
ASSUME ShareAssumption ==
  /\ MaxResult \in Nat /\ MaxPreview \in Nat
  /\ Retentions \subseteq Nat \ {0} /\ DefaultRetention \in Retentions

VARIABLES
  results,      \* the history: oldest first
  activeResult, \* the identifier of the active one, or 0
  privacy,      \* the user's settings
  submission,   \* the prepared envelope and whether it is approved
  localExport,  \* the frozen export
  numbering,    \* the next preview's and the next export's number
  heldPreviews, \* the previews the user interface still holds
  historyFile,  \* the results on disk
  recorded,     \* how many results have been recorded
  agreed,       \* the submission and the export the user agrees to at present
  left          \* what left the machine last

shareVars ==
  <<results, activeResult, privacy, submission, localExport, numbering, heldPreviews,
    historyFile, recorded, agreed, left>>

NoSubmission == [envelope |-> 0, approved |-> FALSE]
NoExport == [result |-> 0, generation |-> 0, approved |-> FALSE]
NoFile == <<>>
NobodyAgreed == [submission |-> 0, export |-> 0]

Ids(h) == { h[i].id : i \in DOMAIN h }
Has(h, id) == id \in Ids(h)
IndexOf(h, id) == CHOOSE i \in DOMAIN h : h[i].id = id
Entry(h, id) == h[IndexOf(h, id)]
Update(h, id, e) == [i \in DOMAIN h |-> IF h[i].id = id THEN e ELSE h[i]]
NewEntry(id) == [id |-> id, state |-> "LocalResultAvailable", preview |-> 0]
Newest(h, n) == SubSeq(h, 1 + (IF Len(h) > n THEN Len(h) - n ELSE 0), Len(h))

HasActive == activeResult # 0
ActiveEntry == Entry(results, activeResult)

ShareInit ==
  /\ results = <<>> /\ activeResult = 0
  /\ privacy = [sharing |-> FALSE, retained |-> DefaultRetention]
  /\ submission = NoSubmission /\ localExport = NoExport
  /\ numbering = [preview |-> 1, export |-> 1] /\ heldPreviews = {}
  /\ historyFile = NoFile /\ recorded = 0
  /\ agreed = NobodyAgreed /\ left = [kind |-> "nothing", id |-> 0]

-----------------------------------------------------------------------------
(* enforceRetentionLimit on history h with active result a.                 *)
Retained(h, a, settings, s, x) ==
  LET kept == Newest(h, settings.retained)
      gone == a # 0 /\ ~Has(kept, a)
  IN [results |-> kept,
      active |-> IF gone THEN 0 ELSE a,
      submission |-> IF gone THEN NoSubmission ELSE s,
      export |-> IF Len(kept) < Len(h) THEN NoExport ELSE x]

Becomes(r) ==
  /\ results' = r.results /\ activeResult' = r.active
  /\ submission' = r.submission /\ localExport' = r.export

(* The entry whose preview a change of the retention limit withdraws.       *)
WithdrawPreview(e) ==
  IF e.preview = 0 THEN e
  ELSE [e EXCEPT !.preview = 0,
                 !.state = IF @ \in {"PreviewReady", "SubmitPending", "SubmitFailed",
                                     "UserDeclined"}
                           THEN "LocalResultAvailable" ELSE @]

StopPending(e) == IF e.state = "SubmitPending" THEN [e EXCEPT !.state = "PreviewReady"] ELSE e

SetPrivacySettings(settings) ==
  LET changed == settings # privacy
      limitChanged == settings.retained # privacy.retained
      entry1 == IF limitChanged THEN WithdrawPreview(ActiveEntry) ELSE ActiveEntry
      entry2 == IF settings.sharing THEN entry1 ELSE StopPending(entry1)
  IN /\ privacy' = settings
     /\ Becomes(Retained(IF HasActive THEN Update(results, activeResult, entry2) ELSE results,
                         activeResult, settings,
                         IF limitChanged THEN NoSubmission ELSE submission,
                         IF changed THEN NoExport ELSE localExport))
     /\ agreed' = [submission |-> IF ~settings.sharing \/ limitChanged THEN 0
                                  ELSE agreed.submission,
                   export |-> IF changed THEN 0 ELSE agreed.export]
     /\ UNCHANGED <<numbering, heldPreviews, historyFile, recorded, left>>

(* recordLocalResult: the new result is the active one.                     *)
Recorded(h, a, id, settings) ==
  LET older == IF a # 0 /\ Has(h, a)
               THEN Update(h, a, [Entry(h, a) EXCEPT !.state = "Superseded"]) ELSE h
  IN Retained(Append(older, NewEntry(id)), id, settings, NoSubmission, NoExport)

RecordLocalResult ==
  /\ recorded < MaxResult /\ recorded' = recorded + 1
  /\ Becomes(Recorded(results, activeResult, recorded', privacy))
  /\ agreed' = NobodyAgreed
  /\ UNCHANGED <<privacy, numbering, heldPreviews, historyFile, left>>

-----------------------------------------------------------------------------
PreparePreview ==
  /\ HasActive /\ numbering.preview <= MaxPreview
  /\ ActiveEntry.state \in {"LocalResultAvailable", "UserDeclined", "SubmitFailed"}
  /\ submission' = [envelope |-> activeResult, approved |-> FALSE]
  /\ results' = Update(results, activeResult,
                       [ActiveEntry EXCEPT !.preview = numbering.preview,
                                           !.state = "PreviewReady"])
  /\ heldPreviews' = heldPreviews \cup {[kind |-> "share", id |-> activeResult, generation |-> numbering.preview]}
  /\ numbering' = [numbering EXCEPT !.preview = @ + 1]
  /\ UNCHANGED <<activeResult, privacy, localExport, historyFile, recorded, agreed, left>>

DeclineSharing ==
  /\ HasActive /\ ActiveEntry.state = "PreviewReady"
  /\ results' = Update(results, activeResult, [ActiveEntry EXCEPT !.state = "UserDeclined"])
  /\ agreed' = [agreed EXCEPT !.submission = 0]
  /\ UNCHANGED <<activeResult, privacy, submission, localExport, numbering, heldPreviews,
                 historyFile, recorded, left>>

PreviewIsCurrent(p, e) == e.preview # 0 /\ p.generation = e.preview

(* beginSubmission: the user approves one of the previews held, maybe an    *)
(* old one.                                                                 *)
BeginSubmission(p) ==
  /\ p.kind = "share" /\ privacy.sharing /\ HasActive
  /\ PreviewIsCurrent(p, ActiveEntry)
  /\ ActiveEntry.state \in {"PreviewReady", "SubmitFailed"}
  /\ p.id = activeResult
  /\ submission.envelope # 0
  /\ submission' = [submission EXCEPT !.approved = (p.id = submission.envelope)]
  /\ IF submission'.approved
     THEN /\ results' = Update(results, activeResult,
                               [ActiveEntry EXCEPT !.state = "SubmitPending"])
          /\ agreed' = [agreed EXCEPT !.submission = p.id]
     ELSE UNCHANGED <<results, agreed>>
  /\ UNCHANGED <<activeResult, privacy, localExport, numbering, heldPreviews, historyFile,
                 recorded, left>>

(* completeSubmission: the transport is reached, or not, and accepts or not. *)
CompleteSubmission(reached, accepts) ==
  /\ HasActive /\ ActiveEntry.state = "SubmitPending"
  /\ IF ~privacy.sharing
     THEN /\ results' = Update(results, activeResult, StopPending(ActiveEntry))
          /\ UNCHANGED left
     ELSE LET sends == submission.envelope # 0 /\ submission.approved /\ reached
          IN /\ left' = IF sends THEN [kind |-> "submission", id |-> submission.envelope]
                        ELSE left
             /\ results' = Update(results, activeResult,
                             [ActiveEntry EXCEPT !.state = IF sends /\ accepts
                                THEN "SubmitSucceeded" ELSE "SubmitFailed"])
  /\ UNCHANGED <<activeResult, privacy, submission, localExport, numbering, heldPreviews,
                 historyFile, recorded, agreed>>

-----------------------------------------------------------------------------
PrepareLocalExport(id) ==
  /\ Has(results, id) /\ numbering.export <= MaxPreview
  /\ localExport' = [result |-> id, generation |-> numbering.export, approved |-> FALSE]
  /\ heldPreviews' = heldPreviews \cup {[kind |-> "export", id |-> id, generation |-> numbering.export]}
  /\ numbering' = [numbering EXCEPT !.export = @ + 1]
  /\ agreed' = [agreed EXCEPT !.export = 0]
  /\ UNCHANGED <<results, activeResult, privacy, submission, historyFile, recorded, left>>

ApproveLocalExport(p) ==
  /\ p.kind = "export" /\ localExport.result # 0
  /\ LET exact == p.generation = localExport.generation /\ p.id = localExport.result
     IN /\ localExport' = [localExport EXCEPT !.approved = exact]
        /\ agreed' = [agreed EXCEPT !.export = IF exact THEN p.id ELSE 0]
  /\ UNCHANGED <<results, activeResult, privacy, submission, numbering, heldPreviews,
                 historyFile, recorded, left>>

DeclineLocalExport ==
  /\ localExport.result # 0 /\ localExport' = NoExport
  /\ agreed' = [agreed EXCEPT !.export = 0]
  /\ UNCHANGED <<results, activeResult, privacy, submission, numbering, heldPreviews,
                 historyFile, recorded, left>>

ExportLocalResult(id) ==
  /\ Has(results, id)
  /\ localExport.result # 0 /\ localExport.approved /\ id = localExport.result
  /\ left' = [kind |-> "export", id |-> localExport.result]
  /\ UNCHANGED <<results, activeResult, privacy, submission, localExport, numbering,
                 heldPreviews, historyFile, recorded, agreed>>

DeleteLocalResult(id) ==
  /\ Has(results, id)
  /\ results' = RemoveAt(results, IndexOf(results, id))
  /\ localExport' = NoExport
  /\ IF id = activeResult
     THEN activeResult' = 0 /\ submission' = NoSubmission /\ agreed' = NobodyAgreed
     ELSE /\ UNCHANGED <<activeResult, submission>>
          /\ agreed' = [agreed EXCEPT !.export = 0]
  /\ UNCHANGED <<privacy, numbering, heldPreviews, historyFile, recorded, left>>

ClearLocalResults ==
  /\ results # <<>> /\ results' = <<>> /\ activeResult' = 0
  /\ submission' = NoSubmission /\ localExport' = NoExport /\ agreed' = NobodyAgreed
  /\ UNCHANGED <<privacy, numbering, heldPreviews, historyFile, recorded, left>>

-----------------------------------------------------------------------------
(* The file: replaced as a whole or not at all.                             *)
SaveHistory(published) ==
  /\ historyFile' = IF published THEN [i \in DOMAIN results |-> results[i].id] ELSE historyFile
  /\ UNCHANGED <<results, activeResult, privacy, submission, localExport, numbering,
                 heldPreviews, recorded, agreed, left>>

(* loadLocalHistoryJsonl: recorded one after the other.                     *)
Restored(ids, settings) ==
  LET after[n \in 0..Len(ids)] ==
        IF n = 0 THEN [results |-> <<>>, active |-> 0, submission |-> NoSubmission,
                       export |-> NoExport]
        ELSE Recorded(after[n - 1].results, after[n - 1].active, ids[n], settings)
  IN after[Len(ids)]

LoadHistory ==
  /\ historyFile # NoFile
  /\ Becomes(Restored(historyFile, privacy))
  /\ agreed' = NobodyAgreed
  /\ UNCHANGED <<privacy, numbering, heldPreviews, historyFile, recorded, left>>

(* writeLocalCompatibilityEvidence, of another process: a model of its own, *)
(* with the default settings.                                               *)
RecordElsewhere ==
  /\ recorded < MaxResult /\ recorded' = recorded + 1
  /\ historyFile' = Newest(Append(Newest(historyFile, DefaultRetention), recorded'),
                           DefaultRetention)
  /\ UNCHANGED <<results, activeResult, privacy, submission, localExport, numbering,
                 heldPreviews, agreed, left>>

RemoveHistory ==
  /\ historyFile # NoFile /\ historyFile' = NoFile
  /\ UNCHANGED <<results, activeResult, privacy, submission, localExport, numbering,
                 heldPreviews, recorded, agreed, left>>

ShareNext ==
  \/ \E s \in [sharing : BOOLEAN, retained : Retentions] : SetPrivacySettings(s)
  \/ RecordLocalResult \/ PreparePreview \/ DeclineSharing
  \/ \E p \in heldPreviews : BeginSubmission(p) \/ ApproveLocalExport(p)
  \/ \E reached, accepts \in BOOLEAN : CompleteSubmission(reached, accepts)
  \/ \E id \in 1..MaxResult :
       PrepareLocalExport(id) \/ ExportLocalResult(id) \/ DeleteLocalResult(id)
  \/ DeclineLocalExport \/ ClearLocalResults
  \/ \E published \in BOOLEAN : SaveHistory(published)
  \/ LoadHistory \/ RecordElsewhere \/ RemoveHistory

-----------------------------------------------------------------------------
ShareTypeOK ==
  /\ Len(results) <= MaxResult
  /\ \A i, j \in DOMAIN results : results[i].id = results[j].id => i = j
  /\ privacy \in [sharing : BOOLEAN, retained : Retentions]
  /\ submission \in [envelope : 0..MaxResult, approved : BOOLEAN]
  /\ localExport.generation <= MaxPreview
  /\ historyFile \in Seq(1..MaxResult)

(* What is waiting to be sent, or may be exported, is what the user agreed  *)
(* to and has not withdrawn since: by another preview, by turning sharing    *)
(* off, by deleting the result or by a newer one.                           *)
SharingIsConsented ==
  /\ HasActive =>
       /\ ActiveEntry.state = "SubmitPending" =>
            /\ privacy.sharing /\ submission.approved
            /\ submission.envelope = activeResult /\ agreed.submission = activeResult
       /\ ActiveEntry.state \in {"PreviewReady", "SubmitFailed"} =>
            submission.envelope = activeResult
  /\ activeResult # 0 => activeResult = results[Len(results)].id
  /\ localExport.approved => agreed.export = localExport.result
  /\ localExport.result # 0 => Has(results, localExport.result)
  /\ Len(results) <= privacy.retained

(* What leaves the machine is what the user agrees to at that moment.       *)
LeavesAsAgreed ==
  [][left' # left =>
       \/ /\ left'.kind = "submission" /\ privacy.sharing
          /\ agreed.submission = left'.id
       \/ left'.kind = "export" /\ agreed.export = left'.id]_shareVars

-----------------------------------------------------------------------------
(* The file of the decisions a user made about the files of a game's          *)
(* instances (LocalMaterializationDecisionStore of                          *)
(* compatibility_local_store.cpp), written through a staging file of a fixed   *)
(* name, and the authority a launch takes from it                            *)
(* (StoreBackedTrustedMaterializationDecisionSource).  Processes may save at   *)
(* the same time and die, and the game's provider and requirements change.    *)

CONSTANTS
  Saver,             \* processes that may save or remove the file
  StoredDecision,          \* decisions: [origin, identity, valid]
  MaxIdentity,       \* bound on the changes of a game's identity
  MaxDeath           \* bound on the deaths of savers

(* A game has an identity to begin with.                                    *)
ASSUME StoreAssumption == MaxIdentity \in Nat \ {0}

VARIABLES
  decisionFile,      \* the published file
  stagingFile,       \* the staging file and who has it open
  saver,             \* per process: where its save is
  gameIdentity,      \* the game, provider and requirement revisions, as one number
  granted,           \* what the last launch took from the store
  deaths             \* [count, overlap]: has a save met another one's staging file?

storeVars == <<decisionFile, stagingFile, saver, gameIdentity, granted, deaths>>

(* The content of a file: a document of one decision, none yet, or bytes that  *)
(* are no document.                                                         *)
NoStoreFile == [kind |-> "absent"]
EmptyFile == [kind |-> "empty"]
TornFile == [kind |-> "torn"]
DocumentOf(d) == [kind |-> "document", decision |-> d]

(* validateLocalMaterializationDecisionDocument(): identities, revisions,      *)
(* bounds, unique steps and no step outside the Seat's own instance.          *)
Decodes(c) == c.kind = "document" /\ c.decision.valid

IdleSaver == [pc |-> "idle", result |-> "none"]

StoreInit ==
  /\ decisionFile = NoStoreFile
  /\ stagingFile = [content |-> NoStoreFile, open |-> {}]
  /\ saver = [s \in Saver |-> IdleSaver]
  /\ gameIdentity = 1
  /\ granted = [code |-> "none"]
  /\ deaths = [count |-> 0, overlap |-> FALSE]

(* save() encodes first: what is not valid is refused with nothing touched.   *)
BeginSave(s) ==
  /\ saver[s].pc = "idle"
  /\ \E d \in StoredDecision :
       saver' = [saver EXCEPT ![s] = IF d.valid
                  THEN [pc |-> "clearing", result |-> "none", decision |-> d]
                  ELSE [pc |-> "idle", result |-> "InvalidDocument"]]
  /\ deaths' = [deaths EXCEPT !.overlap = @ \/ \E o \in Saver \ {s} : saver[o].pc # "idle"]
  /\ UNCHANGED <<decisionFile, stagingFile, gameIdentity, granted>>

(* decisionRemoveIfPresentVerified(): not while another has the file open.    *)
Removable == stagingFile.content = NoStoreFile \/ stagingFile.open = {}
EndSave(s, result) == saver' = [saver EXCEPT ![s] = [pc |-> "idle", result |-> result]]

ClearStaging(s) ==
  /\ saver[s].pc = "clearing"
  /\ \/ /\ Removable
        /\ stagingFile' = [stagingFile EXCEPT !.content = NoStoreFile]
        /\ saver' = [saver EXCEPT ![s].pc = "opening"]
     \/ EndSave(s, "CleanupFailed") /\ UNCHANGED stagingFile
  /\ UNCHANGED <<decisionFile, gameIdentity, granted, deaths>>

(* The stream shares the file for writing, so two may have it open; each      *)
(* opening truncates it.                                                    *)
OpenStaging(s) ==
  /\ saver[s].pc = "opening"
  /\ \/ /\ stagingFile' = [content |-> EmptyFile, open |-> stagingFile.open \cup {s}]
        /\ saver' = [saver EXCEPT ![s].pc = "writing"]
     \/ saver' = [saver EXCEPT ![s].pc = "failing"] /\ UNCHANGED stagingFile
  /\ UNCHANGED <<decisionFile, gameIdentity, granted, deaths>>

(* Written from the start and closed: over what another wrote it leaves a     *)
(* mixture of both; a write that fails leaves a part.                         *)
WriteDecision(s) ==
  /\ saver[s].pc = "writing"
  /\ LET mine == DocumentOf(saver[s].decision)
         closed == stagingFile.open \ {s}
     IN \/ /\ stagingFile' = [open |-> closed,
                 content |-> IF stagingFile.content \in {EmptyFile, mine} THEN mine ELSE TornFile]
           /\ saver' = [saver EXCEPT ![s].pc = "flushing"]
        \/ /\ stagingFile' = [open |-> closed, content |-> TornFile]
           /\ saver' = [saver EXCEPT ![s].pc = "failing"]
  /\ UNCHANGED <<decisionFile, gameIdentity, granted, deaths>>

(* decisionFlushStagedFile(): opened without sharing writers.                 *)
FlushStaging(s) ==
  /\ saver[s].pc = "flushing"
  /\ saver' = [saver EXCEPT ![s].pc =
                 IF stagingFile.open = {} /\ stagingFile.content # NoStoreFile
                 THEN "publishing" ELSE "failing"]
  /\ UNCHANGED <<decisionFile, stagingFile, gameIdentity, granted, deaths>>

(* decisionPublishStagedFile(): replaces the file in one step, or not at all.  *)
PublishStaging(s) ==
  /\ saver[s].pc = "publishing"
  /\ \/ /\ Removable /\ stagingFile.content # NoStoreFile
        /\ decisionFile' = stagingFile.content
        /\ stagingFile' = [stagingFile EXCEPT !.content = NoStoreFile]
        /\ saver' = [saver EXCEPT ![s].pc = "verifying"]
     \/ saver' = [saver EXCEPT ![s].pc = "failing"] /\ UNCHANGED <<decisionFile, stagingFile>>
  /\ UNCHANGED <<gameIdentity, granted, deaths>>

VerifyStaging(s) ==
  /\ saver[s].pc = "verifying"
  /\ IF Removable
     THEN stagingFile' = [stagingFile EXCEPT !.content = NoStoreFile] /\ EndSave(s, "Success")
     ELSE UNCHANGED stagingFile /\ EndSave(s, "CleanupFailed")
  /\ UNCHANGED <<decisionFile, gameIdentity, granted, deaths>>

(* decisionFailAfterStaging().                                              *)
FailAfterStaging(s) ==
  /\ saver[s].pc = "failing"
  /\ IF Removable
     THEN stagingFile' = [stagingFile EXCEPT !.content = NoStoreFile] /\ EndSave(s, "WriteFailed")
     ELSE UNCHANGED stagingFile /\ EndSave(s, "CleanupFailed")
  /\ UNCHANGED <<decisionFile, gameIdentity, granted, deaths>>

(* remove(): the file, then the staging file.                                *)
RemoveStore(s) ==
  /\ saver[s].pc = "idle"
  /\ decisionFile' = NoStoreFile
  /\ IF Removable
     THEN /\ stagingFile' = [stagingFile EXCEPT !.content = NoStoreFile]
          /\ EndSave(s, IF decisionFile = NoStoreFile /\ stagingFile.content = NoStoreFile
                        THEN "Missing" ELSE "Removed")
     ELSE UNCHANGED stagingFile /\ EndSave(s, "CleanupFailed")
  /\ deaths' = [deaths EXCEPT !.overlap = @ \/ \E o \in Saver \ {s} : saver[o].pc # "idle"]
  /\ UNCHANGED <<gameIdentity, granted>>

(* A saver dies, between any two steps; a write cut off leaves a part.         *)
SaverDies(s) ==
  /\ deaths.count < MaxDeath /\ saver[s].pc # "idle"
  /\ deaths' = [deaths EXCEPT !.count = @ + 1]
  /\ saver' = [saver EXCEPT ![s] = IdleSaver]
  /\ stagingFile' \in { [open |-> stagingFile.open \ {s}, content |-> c] :
                         c \in {stagingFile.content}
                               \cup IF s \in stagingFile.open THEN {TornFile} ELSE {} }
  /\ UNCHANGED <<decisionFile, gameIdentity, granted>>

IdentityChanges ==
  /\ gameIdentity < MaxIdentity /\ gameIdentity' = gameIdentity + 1
  /\ UNCHANGED <<decisionFile, stagingFile, saver, granted, deaths>>

(* resolveCurrent(): no file or no decision asks for nothing; one that cannot  *)
(* be read in full, is another's or is stale stops the launch.                *)
Resolve ==
  /\ granted' \in
       { [code |-> "InvalidStore"] } \cup
       { IF decisionFile = NoStoreFile THEN [code |-> "NotRequired"]
         ELSE IF ~Decodes(decisionFile) THEN [code |-> "InvalidStore"]
         ELSE LET d == decisionFile.decision
              IN IF d.origin # "LocalApproved" THEN [code |-> "UntrustedOrigin"]
                 ELSE IF d.identity # gameIdentity THEN [code |-> "IdentityMismatch"]
                 ELSE [code |-> "Success", decision |-> d, at |-> gameIdentity] }
  /\ UNCHANGED <<decisionFile, stagingFile, saver, gameIdentity, deaths>>

StoreNext ==
  \/ \E s \in Saver :
       \/ BeginSave(s) \/ ClearStaging(s) \/ OpenStaging(s) \/ WriteDecision(s)
       \/ FlushStaging(s) \/ PublishStaging(s) \/ VerifyStaging(s) \/ FailAfterStaging(s)
       \/ RemoveStore(s) \/ SaverDies(s)
  \/ IdentityChanges \/ Resolve

-----------------------------------------------------------------------------
(* Type invariant of the store.                                             *)
StoreTypeOK ==
  /\ decisionFile.kind \in {"absent", "document", "torn", "empty"}
  /\ stagingFile.open \subseteq Saver
  /\ \A s \in Saver : saver[s].pc \in {"idle", "clearing", "opening", "writing", "flushing",
                                       "publishing", "verifying", "failing"}
  /\ gameIdentity \in 1..MaxIdentity

(* Whatever dies or fails, the file is absent or one whole document, unless    *)
(* two saves met; a save that reported success is what the file says until    *)
(* the next; and even when saves met, a launch is given nothing but a whole    *)
(* decision made here for the identity the game then had.                    *)
DecisionsAreExact ==
  /\ ~deaths.overlap => decisionFile = NoStoreFile \/ Decodes(decisionFile)
  /\ \A s \in Saver : saver[s].pc = "verifying" /\ ~deaths.overlap =>
                        decisionFile = DocumentOf(saver[s].decision)
  /\ granted.code = "Success" =>
       granted.decision.valid /\ granted.decision.identity = granted.at
       /\ granted.decision.origin = "LocalApproved"

-----------------------------------------------------------------------------
(* The community package in use and the ones it replaced                    *)
(* (CommunityPackageStore), each admitted by its manifest, by what was         *)
(* observed of its bytes and entries, and by the trust policy of that moment   *)
(* (evaluateArtifact).                                                      *)

CONSTANTS
  PackageId, PackageEntry,     \* package and entry identities
  MaxPackageRevision,          \* bound on revisions
  MaxHistory,                  \* kMaximumCommunityPackageHistory
  MaxPackageStep               \* bound on installations

(* The history may have to be empty, and packages may never come.           *)
ASSUME CommunityAssumption == MaxHistory \in Nat /\ MaxPackageStep \in Nat

VARIABLES
  community,     \* [current, history]
  policy,        \* the trust policy
  installs,      \* what was installed and not rolled back, oldest first
  packageSteps   \* installations done

communityVars == <<community, policy, installs, packageSteps>>

Hash == {"h1", "h2"}
Origin == {"s1", "s2"}
TrustPolicy == [sources : SUBSET Origin, capabilities : {{}, {"data", "setup"}},
                requireRedistribution : BOOLEAN]
Manifest == [id : PackageId, revision : 1..MaxPackageRevision, source : Origin,
             hash : {"h1"}, redistribution : BOOLEAN, schema : BOOLEAN,
             entries : {{}, {[entry |-> CHOOSE e \in PackageEntry : TRUE, hash |-> "h1",
                              capability |-> "setup"]}}]
NoManifest == [id |-> "none"]

CommunityInit ==
  /\ community = [current |-> NoManifest, history |-> <<>>]
  /\ policy \in TrustPolicy /\ installs = <<>> /\ packageSteps = 0

(* evaluateArtifact() for a data-only artifact: nothing to install, no        *)
(* signature, so source, capabilities, redistribution and the hash decide.    *)
TrustedArtifact(m, hash, p) ==
  /\ m.source \in p.sources
  /\ { e.capability : e \in m.entries } \subseteq p.capabilities
  /\ p.requireRedistribution => m.redistribution
  /\ hash = m.hash

(* The observed entries are those declared, each with its hash.               *)
EntriesMatch(m, observed) ==
  /\ DOMAIN observed = { e.entry : e \in m.entries }
  /\ \A e \in m.entries : observed[e.entry] = e.hash

(* installOrUpdate(): an update of the package in use is a later revision; the *)
(* one it replaces goes to the history, whose oldest makes room.              *)
Newer(m) == community.current.id = m.id => m.revision > community.current.revision
Kept(h) == IF Len(h) > MaxHistory THEN Tail(h) ELSE h

InstallOrUpdate ==
  /\ packageSteps < MaxPackageStep
  /\ \E m \in {m \in Manifest : m.schema /\ Newer(m)}, hash \in Hash :
       \E named \in SUBSET PackageEntry : \E observed \in [named -> Hash] :
         /\ TrustedArtifact(m, hash, policy) /\ EntriesMatch(m, observed)
         /\ community' = [current |-> m,
              history |-> IF community.current = NoManifest THEN community.history
                          ELSE Kept(Append(community.history, community.current))]
         /\ installs' = Append(installs, [manifest |-> m, policy |-> policy])
  /\ packageSteps' = packageSteps + 1
  /\ UNCHANGED policy

(* rollback(): to the one before, as it was admitted then.                   *)
RollbackPackage ==
  /\ community.current # NoManifest /\ community.history # <<>>
  /\ community' = [current |-> Last(community.history), history |-> Front(community.history)]
  /\ installs' = Front(installs)
  /\ UNCHANGED <<policy, packageSteps>>

ClearPackages ==
  /\ community' = [current |-> NoManifest, history |-> <<>>] /\ installs' = <<>>
  /\ UNCHANGED <<policy, packageSteps>>

PolicyChanges ==
  /\ \E s \in SUBSET Origin : policy' = [policy EXCEPT !.sources = s]
  /\ UNCHANGED <<community, installs, packageSteps>>

CommunityNext == InstallOrUpdate \/ RollbackPackage \/ ClearPackages \/ PolicyChanges

-----------------------------------------------------------------------------
(* Type invariant of the store of packages.                                  *)
CommunityTypeOK ==
  /\ community.current \in Manifest \cup {NoManifest}
  /\ Len(community.history) <= MaxHistory
  /\ policy \in TrustPolicy /\ packageSteps \in 0..MaxPackageStep

(* The package in use is the last one installed and not rolled back, what a    *)
(* rollback goes back to are those before it in that order, each was trusted   *)
(* under the policy when it was installed, and a package that follows itself   *)
(* without another in between is a later revision.                           *)
PackagesAreTrusted ==
  /\ (community.current = NoManifest) <=> (installs = <<>>)
  /\ installs # <<>> =>
       LET n == Len(installs)
           h == Len(community.history)
       IN /\ community.current = installs[n].manifest
          /\ h < n /\ \A i \in 1..h : community.history[i] = installs[n - 1 - h + i].manifest
  /\ \A i \in DOMAIN installs : TrustedArtifact(installs[i].manifest, installs[i].manifest.hash,
                                        installs[i].policy)
  /\ \A i \in 2..Len(installs) :
       installs[i].manifest.id = installs[i - 1].manifest.id =>
         installs[i].manifest.revision > installs[i - 1].manifest.revision
=============================================================================
