----------------------------- MODULE MCStorage -----------------------------
(* The two writers of stored files for TLC: requests on resources and the      *)
(* import of a group. An instance runs one of them, chosen at the start.       *)
EXTENDS MCResourceStore, MCGroupImport

VARIABLE writer

storageVars == <<writer, vars, importVars>>

StorageSymmetry == StoreSymmetry \cup ImportSymmetry

\* What does not run has one initial state.
StorageInit ==
  /\ writer \in {"requests", "import"}
  /\ Init /\ (writer = "import" => migration = NoMigration)
  /\ ImportInit /\ (writer = "requests" => guided = MCItems /\ rows = {})

StorageNext ==
  \/ writer = "requests" /\ Next /\ UNCHANGED <<writer, importVars>>
  \/ writer = "import" /\ ImportNext /\ UNCHANGED <<writer, vars>>

StorageSpec == StorageInit /\ [][StorageNext]_storageVars
=============================================================================
