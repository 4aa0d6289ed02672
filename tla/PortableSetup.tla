---------------------------- MODULE PortableSetup ----------------------------
(* A setup of two players on its way from one machine to another: edited and  *)
(* saved against its game (two_player_setup_editor.cpp), exported with its     *)
(* local paths replaced by variables, written to a package, carried and       *)
(* perhaps altered, read and imported with the other machine's paths          *)
(* (setup_package.cpp), by itself or as an entry of a community package        *)
(* (community_setup.cpp).                                                     *)
EXTENDS Naturals, FiniteSets

CONSTANTS
  EditRecipe,     \* the recipes [Field -> path] an edit may put in an instance
  TargetPath,     \* the numbers of the local paths on the importing machine
  MaxEdit         \* bound on edits and on changes of a game

ASSUME EditAssumption == MaxEdit \in Nat

VARIABLES
  editor,         \* [committed, draft, edits]
  gameRecords,          \* the record of the game on each machine
  carried,        \* the package as it is carried: NoPackage or a package
  imported        \* what the last import left: NoImport or its output

portableVars == <<editor, gameRecords, carried, imported>>

InstanceIndex == {0, 1}
PathField == {"WorkingDirectory", "DataRoot"}
Place == InstanceIndex \X PathField

(* A path: none, a local one that is safe ("loose": absolute for the editor, *)
(* not safe for a package), or the placeholder of a variable.                 *)
NoPath == [kind |-> "none", of |-> 0]
Local(n) == [kind |-> "local", of |-> n]
Loose == [kind |-> "loose", of |-> 0]
Placeholder(p) == [kind |-> "placeholder",
                   of |-> IF p[2] = "DataRoot" THEN 10 + p[1] ELSE 20 + p[1]]

(* setup::validateSetup(): the schema, the game and its compatibility record  *)
(* as they are now, absolute paths, and no shared data root.                  *)
MatchesGame(s, g) == s.game = g.id /\ s.compatibility \in {0, g.compatibility}
ValidSetup(s, g) ==
  /\ MatchesGame(s, g) /\ s.schema
  /\ \A p \in Place : s.paths[p].kind \in {"none", "local", "loose"}
  /\ LET root(i) == s.paths[<<i, "DataRoot">>]
     IN root(0) # NoPath => root(0) # root(1)

(* validateSourceSetupPaths(): text is Unicode without NUL, paths are safe.   *)
SourceIsSafe(s) == s.text /\ \A p \in Place : s.paths[p].kind \in {"none", "local"}

-----------------------------------------------------------------------------
(* The package, and validatePackageStructure().                              *)
Template == {"none", "bounded", "shared installation", "escaping"}
Variables(s) == { [name |-> Placeholder(p).of, place |-> p] :
                    p \in { q \in Place : s.paths[q] # NoPath } }

ValidMaterializations(pkg) ==
  \A i \in InstanceIndex :
    /\ pkg.templates[i] \in {"none", "bounded"}
    /\ pkg.version = 1 => pkg.templates[i] = "none"

ValidStructure(pkg) ==
  /\ pkg.version \in {1, 2} /\ pkg.sourceRevision # 0
  /\ Cardinality(pkg.variables) <= 4
  /\ pkg.setup.schema /\ pkg.setup.text
  /\ \A v, w \in pkg.variables : v # w => v.name # w.name /\ v.place # w.place
  /\ \A v \in pkg.variables : pkg.setup.paths[v.place] = [kind |-> "placeholder", of |-> v.name]
  /\ \A p \in Place : pkg.setup.paths[p] # NoPath =>
       \E v \in pkg.variables : v.place = p /\ pkg.setup.paths[p].of = v.name
  /\ ValidMaterializations(pkg)

(* exportSetup(): every path becomes the placeholder of a variable of its own. *)
Redacted(s) == [s EXCEPT !.paths =
                  [p \in Place |-> IF s.paths[p] = NoPath THEN NoPath ELSE Placeholder(p)]]
PackageOf(s, revision, templates) ==
  [version |-> 2, sourceRevision |-> revision, setup |-> Redacted(s),
   variables |-> Variables(s), templates |-> templates]

NoCarried == [step |-> "none"]
NoImport == [result |-> "none"]

EmptySetup == [game |-> "g", compatibility |-> 1, schema |-> TRUE, text |-> TRUE,
               paths |-> [p \in Place |-> NoPath]]

PortableInit ==
  /\ editor = [committed |-> EmptySetup, draft |-> EmptySetup, edits |-> 0]
  /\ gameRecords = [m \in {"source", "target"} |-> [id |-> "g", compatibility |-> 1, version |-> 1]]
  /\ carried = NoCarried /\ imported = NoImport

-----------------------------------------------------------------------------
(* SetupEditor: one instance of the draft is replaced, or the draft is saved.  *)
SetInstance ==
  /\ carried = NoCarried /\ editor.edits < MaxEdit
  /\ \E i \in InstanceIndex, r \in EditRecipe, text \in BOOLEAN :
       editor' = [editor EXCEPT !.edits = @ + 1, !.draft.text = text,
                    !.draft.paths = [p \in Place |-> IF p[1] = i THEN r[p[2]] ELSE @[p]]]
  /\ UNCHANGED <<gameRecords, carried, imported>>

SaveDraft ==
  /\ carried = NoCarried
  /\ ValidSetup(editor.draft, gameRecords["source"])
  /\ editor' = [editor EXCEPT !.committed = editor.draft]
  /\ UNCHANGED <<gameRecords, carried, imported>>

(* The record of a game changes, while it still matters here: a new           *)
(* compatibility record or version.                                          *)
GameChanges ==
  /\ \E m \in {"source", "target"} :
       /\ imported = NoImport /\ (m = "source" => carried = NoCarried)
       /\ \/ gameRecords[m].compatibility < MaxEdit
             /\ gameRecords' = [gameRecords EXCEPT ![m].compatibility = @ + 1]
          \/ m = "target" /\ gameRecords[m].version < MaxEdit /\ gameRecords' = [gameRecords EXCEPT ![m].version = @ + 1]
  /\ UNCHANGED <<editor, carried, imported>>

(* exportSetup() and encodePackage(); the encoded size has a bound.           *)
Export ==
  /\ carried = NoCarried
  /\ ValidSetup(editor.committed, gameRecords["source"]) /\ SourceIsSafe(editor.committed)
  /\ \E templates \in [InstanceIndex -> Template], revision \in {0, 1} :
       LET pkg == PackageOf(editor.committed, revision, templates)
       IN /\ ValidStructure(pkg)
          /\ carried' = [step |-> "encoded", package |-> pkg, altered |-> FALSE,
                         whole |-> TRUE, untouched |-> pkg]
  /\ UNCHANGED <<editor, gameRecords, imported>>

(* On the way bytes are lost or added, or a field is replaced.               *)
Altered(pkg) ==
  { [pkg EXCEPT !.version = v] : v \in {1, 3} }
  \cup { [pkg EXCEPT !.variables = @ \ {v}] : v \in pkg.variables }
  \cup (UNION { { [pkg EXCEPT !.variables = (@ \ {v}) \cup {[v EXCEPT !.place = p]}] :
                    v \in pkg.variables } : p \in Place })
  \cup (UNION { { [pkg EXCEPT !.setup.paths[p] = x] :
                    x \in {NoPath, Local(1)} \cup { Placeholder(q) : q \in Place } } : p \in Place })
  \cup (UNION { { [pkg EXCEPT !.templates[i] = t] : t \in Template } : i \in InstanceIndex })
  \cup { [pkg EXCEPT !.setup.game = "other"], [pkg EXCEPT !.setup.text = FALSE],
         [pkg EXCEPT !.setup.schema = FALSE], [pkg EXCEPT !.sourceRevision = 0] }

Alter ==
  /\ carried.step = "encoded" /\ ~carried.altered /\ carried.whole
  /\ \/ carried' = [carried EXCEPT !.whole = FALSE]
     \/ \E pkg \in Altered(carried.package) \ {carried.package} :
          carried' = [carried EXCEPT !.package = pkg, !.altered = TRUE]
  /\ UNCHANGED <<editor, gameRecords, imported>>

(* decodePackage(): nothing is produced from bytes that are not a package in   *)
(* full, or whose package is not valid.                                      *)
Decode ==
  /\ carried.step = "encoded"
  /\ carried' = [carried EXCEPT !.step =
                   IF carried.whole /\ ValidStructure(carried.package) THEN "decoded" ELSE "refused"]
  /\ UNCHANGED <<editor, gameRecords, imported>>

-----------------------------------------------------------------------------
(* The bindings the user gives: a set of [name, path], from the variables     *)
(* declared and one that is not.                                             *)
Bindings(pkg) ==
  LET names == { v.name : v \in pkg.variables }
      given == UNION { [N -> { Local(n) : n \in TargetPath } \cup {Loose}] :
                         N \in { names, names \cup {99} } \cup { names \ {n} : n \in names } }
  IN given

(* importSetupInternal(): the bindings are those declared, all of them and    *)
(* safe, and the setup they make is valid for the game here.                  *)
BindingsFit(pkg, b) ==
  /\ DOMAIN b = { v.name : v \in pkg.variables }
  /\ \A n \in DOMAIN b : b[n].kind = "local"
Bound(pkg, b) ==
  [pkg.setup EXCEPT !.paths =
     [p \in Place |-> IF \E v \in pkg.variables : v.place = p
                      THEN b[(CHOOSE v \in pkg.variables : v.place = p).name] ELSE @[p]]]
Importable(pkg, b, g) ==
  /\ ValidStructure(pkg) /\ pkg.setup.game = g.id /\ BindingsFit(pkg, b)
  /\ ValidSetup(Bound(pkg, b), g) /\ SourceIsSafe(Bound(pkg, b))

(* validateCommunitySetupEntry() and importCommunitySetup(): the entry around  *)
(* the package names the game, perhaps its version, and the revision.        *)
CommunityEntry == [game : {"g", "other"}, version : {0, 1}, revision : {1, 2}, text : BOOLEAN]
EntryFits(e, pkg, g) ==
  /\ e.text /\ e.game = pkg.setup.game /\ e.revision = pkg.sourceRevision
  /\ e.game = g.id /\ e.version \in {0, g.version}

(* importSetup(): with a plain setup as output only a package without        *)
(* templates; with a typed one they come along.  The output is written last.  *)
Import ==
  /\ carried.step = "decoded" /\ imported = NoImport
  /\ \E b \in Bindings(carried.package) :
       /\ Importable(carried.package, b, gameRecords["target"])
       /\ \E typed \in BOOLEAN, e \in {NoCarried} \cup CommunityEntry :
            /\ e # NoCarried => EntryFits(e, carried.package, gameRecords["target"])
            /\ typed \/ \A i \in InstanceIndex : carried.package.templates[i] = "none"
            /\ imported' = [result |-> "done", setup |-> Bound(carried.package, b),
                            game |-> gameRecords["target"],
                            templates |-> IF typed THEN carried.package.templates
                                          ELSE [i \in InstanceIndex |-> "none"]]
  /\ UNCHANGED <<editor, gameRecords, carried>>

PortableNext ==
  \/ SetInstance \/ SaveDraft \/ GameChanges \/ Export \/ Alter \/ Decode \/ Import

-----------------------------------------------------------------------------
(* Type invariant of a setup on its way.                                     *)
PortableTypeOK ==
  /\ editor.edits \in 0..MaxEdit
  /\ carried = NoCarried \/ carried.step \in {"encoded", "decoded", "refused"}
  /\ imported = NoImport \/ imported.result = "done"

(* No local path of the source is in what is carried unless another put it    *)
(* there, and then it is refused; what is imported holds this machine's paths *)
(* where the source had paths and nowhere else, one data root per instance,   *)
(* everything else as it was exported unless the package was altered, and no  *)
(* step that was in the package is lost or runs on the shared installation.  *)
PortableSetupIsExact ==
  /\ carried # NoCarried =>
       /\ \A p \in Place : carried.untouched.setup.paths[p].kind \in {"none", "placeholder"}
       /\ carried.step = "decoded" =>
            \A p \in Place : carried.package.setup.paths[p].kind \in {"none", "placeholder"}
  /\ imported # NoImport =>
       /\ \A p \in Place : /\ imported.setup.paths[p].kind \in {"none", "local"}
                           /\ imported.setup.paths[p].of \in {0} \cup TargetPath
       /\ imported.setup.paths[<<0, "DataRoot">>] # NoPath =>
            imported.setup.paths[<<0, "DataRoot">>] # imported.setup.paths[<<1, "DataRoot">>]
       /\ imported.templates = carried.package.templates
       /\ \A i \in InstanceIndex : imported.templates[i] # "shared installation"
       /\ MatchesGame(imported.setup, imported.game)
       /\ ~carried.altered =>
            \A p \in Place : (imported.setup.paths[p] = NoPath)
                               <=> (editor.committed.paths[p] = NoPath)
=============================================================================
