-------------------------- MODULE StrategyVersions --------------------------
(***************************************************************************)
(* The strategy definitions of the dashboard (StrategyVersionStore): drafts *)
(* that are edited, published once and archived.  The web application runs   *)
(* every request in a thread of its own; a request reads the row in one      *)
(* transaction and writes it in another.                                     *)
(*                                                                          *)
(* A digest is the definition it was computed from.                         *)
(***************************************************************************)
EXTENDS Naturals

CONSTANTS
    Versions,     \* ids of the rows
    Definitions,  \* definitions a client may send
    Valid,        \* those RuleInterpreter.validate accepts
    Handlers,     \* request threads
    NoDefinition, \* None
    NoVersion,
    MaxRevision   \* bound: edits of one draft

ASSUME ValidAssumption == Valid \subseteq Definitions
ASSUME NoneAssumption == NoDefinition \notin Definitions /\ NoVersion \notin Versions
ASSUME MaxRevisionAssumption == MaxRevision \in Nat \ {0}

VARIABLES
    rows,      \* the definitions table
    handling,  \* handling[h]: the request between its read and its write
    overlap    \* history: versions with an edit and a publication in flight at once

storeVars == <<rows, handling, overlap>>

Idle == [op |-> "idle", id |-> NoVersion, definition |-> NoDefinition]

NoRow == [status |-> "absent", revision |-> 0, definition |-> NoDefinition,
          hash |-> NoDefinition, archived |-> FALSE]

InitStore == /\ rows = [v \in Versions |-> NoRow]
             /\ handling = [h \in Handlers |-> Idle]
             /\ overlap = {}

InFlight(v, op) == \E h \in Handlers : handling[h].op = op /\ handling[h].id = v

-----------------------------------------------------------------------------
CreateDraft(v, d) ==
    /\ rows[v] = NoRow
    /\ rows' = [rows EXCEPT ![v] = [NoRow EXCEPT !.status = "draft", !.revision = 1,
                                                 !.definition = d]]
    /\ UNCHANGED <<handling, overlap>>

\* Slip: any row can be edited.
UpdateReadAnyRow(h, v, d) ==
    /\ handling[h] = Idle /\ rows[v] # NoRow /\ rows[v].revision < MaxRevision
    /\ handling' = [handling EXCEPT ![h] = [op |-> "update", id |-> v, definition |-> d]]
    /\ overlap' = IF InFlight(v, "publish") THEN overlap \cup {v} ELSE overlap
    /\ UNCHANGED rows

\* update: the row is a draft.
UpdateRead(h, v, d) ==
    /\ handling[h] = Idle /\ rows[v].status = "draft" /\ rows[v].revision < MaxRevision
    /\ handling' = [handling EXCEPT ![h] = [op |-> "update", id |-> v, definition |-> d]]
    /\ overlap' = IF InFlight(v, "publish") THEN overlap \cup {v} ELSE overlap
    /\ UNCHANGED rows

\* UPDATE ... WHERE id=?: whatever the row has become.
UpdateWrite(h) ==
    /\ handling[h].op = "update"
    /\ rows' = [rows EXCEPT ![handling[h].id].definition = handling[h].definition,
                            ![handling[h].id].revision = @ + 1]
    /\ handling' = [handling EXCEPT ![h] = Idle]
    /\ UNCHANGED overlap

\* Slip: the definition is not validated.
PublishReadUnchecked(h, v) ==
    /\ handling[h] = Idle /\ rows[v].status = "draft"
    /\ handling' = [handling EXCEPT ![h] = [op |-> "publish", id |-> v,
                                            definition |-> rows[v].definition]]
    /\ overlap' = IF InFlight(v, "update") THEN overlap \cup {v} ELSE overlap
    /\ UNCHANGED rows

\* publish: the row is a draft and its definition valid; the digest is of what was read.
PublishRead(h, v) ==
    /\ handling[h] = Idle /\ rows[v].status = "draft" /\ rows[v].definition \in Valid
    /\ handling' = [handling EXCEPT ![h] = [op |-> "publish", id |-> v,
                                            definition |-> rows[v].definition]]
    /\ overlap' = IF InFlight(v, "update") THEN overlap \cup {v} ELSE overlap
    /\ UNCHANGED rows

PublishWrite(h) ==
    /\ handling[h].op = "publish"
    /\ rows' = [rows EXCEPT ![handling[h].id].status = "published",
                            ![handling[h].id].hash = handling[h].definition]
    /\ handling' = [handling EXCEPT ![h] = Idle]
    /\ UNCHANGED overlap

\* archive: drafts too; nothing a concurrent request could change decides it.
Archive(v) == /\ rows[v] # NoRow
              /\ rows' = [rows EXCEPT ![v].archived = TRUE]
              /\ UNCHANGED <<handling, overlap>>

StoreNext == \/ \E v \in Versions, d \in Definitions : CreateDraft(v, d)
             \/ \E h \in Handlers, v \in Versions, d \in Definitions : UpdateRead(h, v, d)
             \/ \E h \in Handlers, v \in Versions : PublishRead(h, v)
             \/ \E h \in Handlers : UpdateWrite(h) \/ PublishWrite(h)
             \/ \E v \in Versions : Archive(v)

StoreSpec == InitStore /\ [][StoreNext]_storeVars

-----------------------------------------------------------------------------
Row == [status : {"absent", "draft", "published"}, revision : Nat,
        definition : Definitions \cup {NoDefinition}, hash : Valid \cup {NoDefinition},
        archived : BOOLEAN]

Request == [op : {"update"}, id : Versions, definition : Definitions]
           \cup [op : {"publish"}, id : Versions, definition : Valid] \cup {Idle}

StoreOK == /\ rows \in [Versions -> Row]
           /\ handling \in [Handlers -> Request]
           /\ overlap \subseteq Versions

Published(v) == rows[v].status = "published"

(* A published version carries the digest of its own definition, and that is a
   valid one, unless an edit and the publication were in flight at once.     *)
HashIsOfDefinition == \A v \in Versions \ overlap :
    Published(v) => rows[v].hash = rows[v].definition /\ rows[v].definition \in Valid

(* Apart from such a version no request, however late its write, changes a
   published definition, its digest or its revision.                         *)
PublishedFixed == [][\A v \in Versions :
    Published(v) /\ v \notin overlap =>
        [rows[v] EXCEPT !.archived = TRUE] = [rows'[v] EXCEPT !.archived = TRUE]]_storeVars

(* "Published strategy definitions are immutable" (README.md). *)
PublishedImmutable == [][\A v \in Versions :
    Published(v) => rows'[v].definition = rows[v].definition]_storeVars

=============================================================================
