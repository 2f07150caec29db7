---------------------------- MODULE ServicesManager ----------------------------
(***************************************************************************)
(* DefaultServicesManagerImpl over an InMemoryServiceRegistryDaoImpl: the  *)
(* map of registered services that lookups read, and the list it mirrors.  *)
(*                                                                         *)
(* Administrators save and delete services, one at a time (both methods    *)
(* are synchronized); a quartz job reloads the map from the list, outside  *)
(* the monitor.  The list is an ArrayList: a step of either side may come  *)
(* between two steps of the reload's iterator.                             *)
(***************************************************************************)
EXTENDS Integers, SequencesExt

CONSTANTS
    Admin,        \* requests of the management application
    Text,         \* what a registered service says, but for its id and order
    ServiceId,    \* the serviceId (pattern) in a text
    Name,         \* the rank of its name, without regard to case
    EvaluationOrder, \* bound: evaluation orders
    InitStore,    \* the services configured in deployerConfigContext.xml
    Place,        \* where an iteration over the map meets an id
    Reloads,      \* whether the reload job is scheduled
    MaxChanges    \* bound on the saves and deletes

Content == [text : Text, order : EvaluationOrder]
Entry   == [id : Nat, content : Content]

ASSUME ServicesAssumption ==
    /\ Text # {}
    /\ DOMAIN ServiceId = Text
    /\ Name \in [Text -> Nat]
    /\ EvaluationOrder \subseteq Int /\ EvaluationOrder # {}
    /\ InitStore \in Seq(Entry)
    /\ Reloads \in BOOLEAN
    /\ MaxChanges \in Nat

VARIABLES
    store,      \* InMemoryServiceRegistryDaoImpl.registeredServices
    services,   \* DefaultServicesManagerImpl.services, id to content
    pc, entry,  \* each request, and the service it is about
    lpc,        \* the reload
    cursor,     \* ... the position of its iterator
    local,      \* ... localServices
    modified,   \* ... the list's modCount is not the iterator's any more
    changes,    \* bound: saves and deletes so far
    deleted,    \* history: ids deleted while no reload ran, not saved since
    overlapped, \* history: something was changed since the reload began
    agreed      \* history: nothing was since the last reload, nor during it

request == <<pc, entry>>
reload  == <<lpc, cursor, local>>
vars    == <<store, services, request, reload, modified, changes,
             deleted, overlapped, agreed>>

-----------------------------------------------------------------------------
NewId   == -1
NoEntry == [id |-> NewId, content |-> CHOOSE c \in Content : TRUE]

Put(m, i, c)  == [j \in DOMAIN m \cup {i} |-> IF j = i THEN c ELSE m[j]]
Without(m, i) == [j \in DOMAIN m \ {i} |-> m[j]]
NoServices    == [j \in {} |-> NoEntry.content]

\* Putting the entries of a list into a map: the last of each id stays.
Loaded(list) ==
    [i \in {list[k].id : k \in DOMAIN list} |->
        list[SelectLastInSeq(list, LAMBDA e : e.id = i)].content]

\* AbstractRegisteredService.equals looks at every field but the id.
RemoveEqual(list, e) == RemoveFirstMatch(list, LAMBDA x : x.content = e.content)

\* findHighestId, which starts at zero.
HighestId(list) == Max({list[k].id : k \in DOMAIN list} \cup {0})

\* The ids there can be: each change gives one at most.
IdSpace == 0 .. HighestId(InitStore) + MaxChanges

\* A ConcurrentHashMap is iterated in an order of its own, by hash: any order.
ASSUME PlaceAssumption ==
    /\ Place \in [IdSpace -> Nat]
    /\ \A i, j \in IdSpace : Place[i] = Place[j] => i = j

\* AbstractRegisteredService.compareTo: by evaluation order, then by name.
Before(c, d) ==
    \/ c.order < d.order
    \/ c.order = d.order /\ Name[c.text] < Name[d.text]

\* convertToTreeSet: of the services that compare equal the set keeps the one
\* the iteration over the map meets first.
AllServices ==
    {i \in DOMAIN services :
        \A j \in DOMAIN services :
            \/ Before(services[i], services[j]) \/ Before(services[j], services[i])
            \/ Place[i] <= Place[j]}

Pattern(i) == ServiceId[services[i].text]

\* Mutant: a service conflicts with its own former version only.
Valid_SameId(i, c) ==
    \A j \in AllServices : Pattern(j) = ServiceId[c.text] => j # i

\* RegisteredServiceValidator, before the monitor is entered.
Valid(i, c) ==
    \A j \in AllServices : Pattern(j) = ServiceId[c.text] => j = i

InMonitor == \E a \in Admin : pc[a] \in {"add", "put", "remove"}

\* What the history variables note of a change.
Changed == overlapped' = TRUE /\ agreed' = FALSE

-----------------------------------------------------------------------------
\* The constructor loads the list.
Init ==
    /\ store = InitStore
    /\ services = Loaded(InitStore)
    /\ pc = [a \in Admin |-> "idle"]
    /\ entry = [a \in Admin |-> NoEntry]
    /\ lpc = "idle" /\ cursor = 0 /\ local = NoServices /\ modified = FALSE
    /\ changes = 0
    /\ deleted = {} /\ overlapped = FALSE /\ agreed = TRUE

\* A form is submitted for a new service, or for one the manager has.
Submit(a) ==
    /\ pc[a] = "idle"
    /\ changes < MaxChanges
    /\ \E i \in DOMAIN services \cup {NewId}, c \in Content :
        /\ Valid(i, c)
        /\ entry' = [entry EXCEPT ![a] = [id |-> i, content |-> c]]
    /\ pc' = [pc EXCEPT ![a] = "save"]
    /\ changes' = changes + 1
    /\ UNCHANGED <<store, services, reload, modified, deleted, overlapped, agreed>>

\* updateRegisteredServiceEvaluationOrder: a clone of the map's service is given
\* the order, and saved.  Nothing is validated.
UpdateEvaluationOrder(a, i, k) ==
    /\ pc[a] = "idle"
    /\ changes < MaxChanges
    /\ i \in DOMAIN services
    /\ entry' = [entry EXCEPT ![a] = [id |-> i,
                                      content |-> [services[i] EXCEPT !.order = k]]]
    /\ pc' = [pc EXCEPT ![a] = "save"]
    /\ changes' = changes + 1
    /\ UNCHANGED <<store, services, reload, modified, deleted, overlapped, agreed>>

\* Mutant: the id is not set.
SaveRemove_NoId(a) ==
    /\ pc[a] = "save"
    /\ ~InMonitor
    /\ store' = RemoveEqual(store, entry[a])
    /\ modified' = (modified \/ store' # store)
    /\ pc' = [pc EXCEPT ![a] = "add"]
    /\ Changed
    /\ UNCHANGED <<services, entry, reload, changes, deleted>>

\* save enters the monitor: the dao gives a new service its id, and drops the
\* first entry that equals the service.
SaveRemove(a) ==
    /\ pc[a] = "save"
    /\ ~InMonitor
    /\ LET e == entry[a] IN
        /\ entry' = [entry EXCEPT ![a].id =
                        IF e.id = NewId THEN HighestId(store) + 1 ELSE e.id]
        /\ store' = RemoveEqual(store, e)
    /\ modified' = (modified \/ store' # store)
    /\ pc' = [pc EXCEPT ![a] = "add"]
    /\ Changed
    /\ UNCHANGED <<services, reload, changes, deleted>>

SaveAdd(a) ==
    /\ pc[a] = "add"
    /\ store' = Append(store, entry[a])
    /\ modified' = TRUE
    /\ pc' = [pc EXCEPT ![a] = "put"]
    /\ Changed
    /\ UNCHANGED <<services, entry, reload, changes, deleted>>

\* Mutant: the map is not told of a service it has already.
SavePut_OnlyNew(a) ==
    /\ pc[a] = "put"
    /\ services' = IF entry[a].id \in DOMAIN services THEN services
                   ELSE Put(services, entry[a].id, entry[a].content)
    /\ pc' = [pc EXCEPT ![a] = "idle"]
    /\ entry' = [entry EXCEPT ![a] = NoEntry]
    /\ deleted' = deleted \ {entry[a].id}
    /\ Changed
    /\ UNCHANGED <<store, reload, modified, changes>>

SavePut(a) ==
    /\ pc[a] = "put"
    /\ services' = Put(services, entry[a].id, entry[a].content)
    /\ pc' = [pc EXCEPT ![a] = "idle"]
    /\ entry' = [entry EXCEPT ![a] = NoEntry]
    /\ deleted' = deleted \ {entry[a].id}
    /\ Changed
    /\ UNCHANGED <<store, reload, modified, changes>>

\* delete: the dao is given a clone of the map's service.
Delete(a, i) ==
    /\ pc[a] = "idle"
    /\ changes < MaxChanges
    /\ ~InMonitor
    /\ i \in DOMAIN services
    /\ LET e == [id |-> i, content |-> services[i]] IN
        /\ store' = RemoveEqual(store, e)
        /\ entry' = [entry EXCEPT ![a] = e]
    /\ modified' = (modified \/ store' # store)
    /\ pc' = [pc EXCEPT ![a] = "remove"]
    /\ changes' = changes + 1
    /\ Changed
    /\ UNCHANGED <<services, reload, deleted>>

DeleteRemove(a) ==
    /\ pc[a] = "remove"
    /\ services' = Without(services, entry[a].id)
    /\ pc' = [pc EXCEPT ![a] = "idle"]
    /\ entry' = [entry EXCEPT ![a] = NoEntry]
    /\ deleted' = IF lpc = "idle" THEN deleted \cup {entry[a].id} ELSE deleted
    /\ Changed
    /\ UNCHANGED <<store, reload, modified, changes>>

-----------------------------------------------------------------------------
(* load *)

LoadStart ==
    /\ Reloads
    /\ lpc = "idle"
    /\ lpc' = "load" /\ cursor' = 0 /\ local' = NoServices
    /\ modified' = FALSE
    /\ overlapped' = FALSE
    /\ UNCHANGED <<store, services, request, changes, deleted, agreed>>

\* hasNext compares the cursor to the size of the list; next throws a
\* ConcurrentModificationException, which ends the job, when the list has been
\* modified.
LoadNext ==
    /\ lpc = "load"
    /\ cursor # Len(store)
    /\ \/ /\ modified
          /\ lpc' = "idle" /\ cursor' = 0 /\ local' = NoServices
       \/ /\ ~modified
          /\ LET e == store[cursor + 1] IN local' = Put(local, e.id, e.content)
          /\ cursor' = cursor + 1
          /\ UNCHANGED lpc
    /\ UNCHANGED <<store, services, request, modified, changes,
                   deleted, overlapped, agreed>>

\* Mutant: the last entry is left out.
LoadEnd_OneShort ==
    /\ lpc = "load"
    /\ cursor >= Len(store) - 1
    /\ lpc' = "swap"
    /\ UNCHANGED <<store, services, request, cursor, local, modified, changes,
                   deleted, overlapped, agreed>>

LoadEnd ==
    /\ lpc = "load"
    /\ cursor = Len(store)
    /\ lpc' = "swap"
    /\ UNCHANGED <<store, services, request, cursor, local, modified, changes,
                   deleted, overlapped, agreed>>

\* Mutant: what is loaded is added to what was there.
LoadSwap_Merges ==
    /\ lpc = "swap"
    /\ services' = [i \in DOMAIN services \cup DOMAIN local |->
                        IF i \in DOMAIN local THEN local[i] ELSE services[i]]
    /\ lpc' = "idle" /\ cursor' = 0 /\ local' = NoServices
    /\ agreed' = ~overlapped
    /\ UNCHANGED <<store, request, modified, changes, deleted, overlapped>>

LoadSwap ==
    /\ lpc = "swap"
    /\ services' = local
    /\ lpc' = "idle" /\ cursor' = 0 /\ local' = NoServices
    /\ agreed' = ~overlapped
    /\ UNCHANGED <<store, request, modified, changes, deleted, overlapped>>

-----------------------------------------------------------------------------
Proceed(a) == SaveRemove(a) \/ SaveAdd(a) \/ SavePut(a) \/ DeleteRemove(a)
Reload     == LoadStart \/ LoadNext \/ LoadEnd \/ LoadSwap

Next ==
    \/ Reload
    \/ \E a \in Admin :
        \/ Submit(a) \/ Proceed(a)
        \/ \E i \in DOMAIN services :
            \/ Delete(a, i)
            \/ \E k \in EvaluationOrder : UpdateEvaluationOrder(a, i, k)

Spec == Init /\ [][Next]_vars

\* A request that has been submitted is answered, and the reload job runs again
\* and again.
FairSpec == Spec /\ WF_vars(Reload) /\ \A a \in Admin : WF_vars(Proceed(a))

-----------------------------------------------------------------------------
Maps == UNION {[I -> Content] : I \in SUBSET IdSpace}

\* Every variable keeps its type.
TypeOK ==
    /\ store \in Seq(Entry)
    /\ services \in Maps /\ local \in Maps
    /\ pc \in [Admin -> {"idle", "save", "add", "put", "remove"}]
    /\ entry \in [Admin -> [id : Nat \cup {NewId}, content : Content]]
    /\ lpc \in {"idle", "load", "swap"}
    /\ cursor \in Nat
    /\ modified \in BOOLEAN /\ overlapped \in BOOLEAN /\ agreed \in BOOLEAN
    /\ changes \in 0 .. MaxChanges
    /\ deleted \subseteq Nat

\* A reload that no change overlaps makes the lookups see exactly what is
\* stored, and they do until the next change.
QuietReloadAgrees == agreed => services = Loaded(store)

\* Once the administrators stop the lookups end up seeing what is stored,
\* whatever the reloads that raced with them have put into the map.
ReloadsConverge ==
    <>[](\A a \in Admin : pc[a] = "idle") => <>[](services = Loaded(store))

\* Settings in which nothing comes between a look and a save: one administrator,
\* no reload job, a configuration without conflicts, and no name for two service
\* ids (of services that compare equal the validator sees one).
OneAdministrator ==
    /\ \E a \in Admin : Admin = {a}
    /\ ~Reloads
    /\ \A i, j \in DOMAIN Loaded(InitStore) :
          ServiceId[Loaded(InitStore)[i].text] = ServiceId[Loaded(InitStore)[j].text] => i = j
    /\ \A s, t \in Text : Name[s] = Name[t] => ServiceId[s] = ServiceId[t]

\* With one administrator the service a lookup finds is the one a restart of
\* the job would find, although the list keeps former versions of a service.
ServedIsStored ==
    (\A a \in Admin : pc[a] = "idle") =>
        \A i \in DOMAIN services : /\ i \in DOMAIN Loaded(store)
                                   /\ Loaded(store)[i] = services[i]

\* "RegisteredServiceValidator ensures that a new RegisteredService does not
\* have a conflicting Service Id with another service already in the registry."
\* It does while nobody else is at work between its look and the save.
UniqueServiceIds ==
    \A i, j \in DOMAIN services :
        Pattern(i) = Pattern(j) => i = j

\* "Delete the entry for this RegisteredService." (ServicesManager.delete): a
\* reload that starts after the delete does not bring the service back.
DeletedStaysDeleted == deleted \cap DOMAIN services = {}
=============================================================================
