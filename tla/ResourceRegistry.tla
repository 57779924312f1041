--------------------------- MODULE ResourceRegistry ---------------------------
(***************************************************************************)
(* The registry of managed resources (resources/registry.py): a ConfigMap  *)
(* with one JSON table per resource type.  Changing an entry takes three   *)
(* API calls, and nothing locks the ConfigMap between them: the table of   *)
(* the type is read, then all tables are read, and then all of them are    *)
(* patched, the type's with the changed table and the others as read.      *)
(*                                                                         *)
(* The ConfigMap is taken to exist: reading one that does not creates it   *)
(* empty, or fails like any API call when another thread was first.        *)
(***************************************************************************)
CONSTANTS
  Actors,      \* the threads that use the registry
  Resources,   \* the names of the managed OpenStack resources
  KindOf,      \* the resource type of each, one of RESOURCE_TYPES
  None

VARIABLES
  cm,          \* the entries, and the types whose table has been written
  session      \* what each actor has read so far

NoEntries == [r \in Resources |-> None]
Quiet == [table |-> NoEntries, data |-> NoEntries, keys |-> {}]

RegistryInit ==
  /\ cm = [entries |-> NoEntries, keys |-> {}]
  /\ session = [a \in Actors |-> Quiet]

\* The entries of the types in kinds.
Tables(entries, kinds) ==
  [r \in Resources |-> IF KindOf[r] \in kinds THEN entries[r] ELSE None]

\* _get_resources: register and unregister start from the table of the type.
Fetch(a, kind) ==
  /\ session' = [session EXCEPT ![a] = [Quiet EXCEPT !.table = Tables(cm.entries, {kind})]]
  /\ UNCHANGED cm

\* _set_resources reads the ConfigMap again for the tables of the other types.
Reload(a, kind) ==
  /\ session' = [session EXCEPT ![a].keys = cm.keys \ {kind},
                                ![a].data = Tables(cm.entries, cm.keys \ {kind})]
  /\ UNCHANGED cm

\* _update_configmap: the patch replaces every table that was read.
Store(a, name, entry) ==
  LET kind == KindOf[name]
      old(r) == CASE KindOf[r] = kind -> session[a].table[r]
                  [] KindOf[r] \in session[a].keys -> session[a].data[r]
                  [] OTHER -> cm.entries[r]
  IN /\ cm' = [entries |-> [r \in Resources |-> IF r = name THEN entry ELSE old(r)],
               keys |-> cm.keys \cup session[a].keys \cup {kind}]
     /\ session' = [session EXCEPT ![a] = Quiet]

\* The actor gives up, or has nothing to change.
Leave(a) == session' = [session EXCEPT ![a] = Quiet] /\ UNCHANGED cm

Entries(owners, ids) == [id : ids, cr : owners]
===============================================================================
