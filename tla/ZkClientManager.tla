--------------------------- MODULE ZkClientManager ---------------------------
(***************************************************************************)
(* The registry of the clients of a process                                *)
(* (src/src/ZkClientManager.cc:67-105 and 238-310): createZkClient, which  *)
(* increments and reads nextHandle_ outside clientMutex_, destroyClient    *)
(* and getZkClient, called by the threads of the user.  A client is the    *)
(* number of the creation that made it; handles wrap around as a uint32_t  *)
(* does.                                                                   *)
(***************************************************************************)
EXTENDS Naturals, FiniteSets

CONSTANTS Creators,       \* the threads that call createZkClient
          HandleModulus,  \* 2^32 in the code
          FirstHandle,    \* the value of nextHandle_ when creations are watched
          MaxCreations,   \* bound on the calls of createZkClient
          MaxDestroys     \* bound on the calls of destroyClient

ASSUME RegistryAssumption ==
  /\ HandleModulus \in Nat \ {0, 1}
  /\ FirstHandle \in 0..(HandleModulus - 1)
  /\ MaxCreations \in Nat /\ MaxDestroys \in Nat

Handles == 0..(HandleModulus - 1)
Clients == 1..MaxCreations
NoClient == 0

VARIABLES
  nextHandle,       \* nextHandle_
  totalZkClients,   \* totalZkClients_: the client of each handle, or NoClient
  creations,        \* clients made so far
  handleOf,         \* handleOf[c]: the handle_ that c was constructed with
  createPc,         \* createPc[t]: where t is in createZkClient
  loaded,           \* loaded[t]: the nextHandle_ that ++ has read
  client,           \* client[t]: the local shared_ptr of t
  isInit,           \* clients whose init() has succeeded
  returned,         \* <<c, h>>: the creation of c has succeeded and returned h
  destroyed,        \* clients that destroyClient has taken out of the map
  destroys          \* bound

registryVars == <<nextHandle, totalZkClients, creations, handleOf, createPc, loaded, client,
          isInit, returned, destroyed, destroys>>

CreatePcs == {"idle", "add", "test", "new", "insert", "init", "return"}

RegistryInit == /\ nextHandle = FirstHandle
        /\ totalZkClients = [h \in Handles |-> NoClient]
        /\ creations = 0
        /\ handleOf = [c \in Clients |-> 0]
        /\ createPc = [t \in Creators |-> "idle"]
        /\ loaded = [t \in Creators |-> 0]
        /\ client = [t \in Creators |-> NoClient]
        /\ isInit = {} /\ returned = {} /\ destroyed = {} /\ destroys = 0

-----------------------------------------------------------------------------
\* createZkClient is called: nextHandle_++ reads nextHandle_ ...
CreateZkClient(t) ==
  /\ createPc[t] = "idle"
  /\ creations + Cardinality({u \in Creators : createPc[u] \in {"add", "test", "new"}})
       < MaxCreations
  /\ createPc' = [createPc EXCEPT ![t] = "add"]
  /\ loaded' = [loaded EXCEPT ![t] = nextHandle]
  /\ UNCHANGED <<nextHandle, totalZkClients, creations, handleOf, client, isInit,
                 returned, destroyed, destroys>>

\* ... and writes it; no lock is held in between.
Successor(n) == (n + 1) % HandleModulus

Incremented(t) ==
  /\ createPc[t] = "add"
  /\ nextHandle' = Successor(loaded[t])
  /\ createPc' = [createPc EXCEPT ![t] = "test"]
  /\ UNCHANGED <<totalZkClients, creations, handleOf, loaded, client, isInit,
                 returned, destroyed, destroys>>

\* 0 means failure: it is skipped, with a second nextHandle_++.
AfterTest == IF nextHandle = 0 THEN "add" ELSE "new"

TestZero(t) ==
  /\ createPc[t] = "test"
  /\ createPc' = [createPc EXCEPT ![t] = AfterTest]
  /\ loaded' = [loaded EXCEPT ![t] = IF nextHandle = 0 THEN 0 ELSE @]
  /\ UNCHANGED <<nextHandle, totalZkClients, creations, handleOf, client, isInit,
                 returned, destroyed, destroys>>

\* ZkClientPtr client(new ZkClient(nextHandle_))
NewClient(t) ==
  /\ createPc[t] = "new"
  /\ creations' = creations + 1
  /\ handleOf' = [handleOf EXCEPT ![creations + 1] = nextHandle]
  /\ client' = [client EXCEPT ![t] = creations + 1]
  /\ createPc' = [createPc EXCEPT ![t] = "insert"]
  /\ UNCHANGED <<nextHandle, totalZkClients, loaded, isInit, returned,
                 destroyed, destroys>>

\* totalZkClients_[nextHandle_] = client, under clientMutex_; it replaces whatever
\* was there.
Inserted_Previous(t) == [totalZkClients EXCEPT ![loaded[t]] = client[t]]
Inserted(t) == [totalZkClients EXCEPT ![nextHandle] = client[t]]

Insert(t) ==
  /\ createPc[t] = "insert"
  /\ totalZkClients' = Inserted(t)
  /\ createPc' = [createPc EXCEPT ![t] = "init"]
  /\ UNCHANGED <<nextHandle, creations, handleOf, loaded, client, isInit,
                 returned, destroyed, destroys>>

\* client->init() fails (0 is returned and the client stays in the map), or not.
InitFails(t) ==
  /\ createPc[t] = "init"
  /\ createPc' = [createPc EXCEPT ![t] = "idle"]
  /\ client' = [client EXCEPT ![t] = NoClient]
  /\ UNCHANGED <<nextHandle, totalZkClients, creations, handleOf, loaded, isInit,
                 returned, destroyed, destroys>>

InitSucceeds(t) ==
  /\ createPc[t] = "init"
  /\ createPc' = [createPc EXCEPT ![t] = "return"]
  /\ isInit' = isInit \cup {client[t]}
  /\ UNCHANGED <<nextHandle, totalZkClients, creations, handleOf, loaded, client,
                 returned, destroyed, destroys>>

\* return nextHandle_
ReturnValue_Previous(t) == loaded[t]
ReturnValue(t) == nextHandle

Return(t) ==
  /\ createPc[t] = "return"
  /\ returned' = returned \cup {<<client[t], ReturnValue(t)>>}
  /\ createPc' = [createPc EXCEPT ![t] = "idle"]
  /\ client' = [client EXCEPT ![t] = NoClient]
  /\ UNCHANGED <<nextHandle, totalZkClients, creations, handleOf, loaded, isInit,
                 destroyed, destroys>>

\* destroyClient, of a handle that a creation returned.
Erased(h) == [totalZkClients EXCEPT ![h] = NoClient]

DestroyClient(h) ==
  /\ \E c \in Clients : <<c, h>> \in returned
  /\ destroys < MaxDestroys
  /\ destroys' = destroys + 1
  /\ destroyed' = destroyed \cup ({totalZkClients[h]} \ {NoClient})
  /\ totalZkClients' = Erased(h)
  /\ UNCHANGED <<nextHandle, creations, handleOf, createPc, loaded, client, isInit, returned>>

\* __getZkClient finds every client of the map, getZkClient those initialised.
AnyZkClient(h) == totalZkClients[h]
GetZkClient(h) == IF AnyZkClient(h) \in isInit THEN AnyZkClient(h) ELSE NoClient

RegistryNext == \/ \E t \in Creators : \/ CreateZkClient(t) \/ Incremented(t) \/ TestZero(t)
                               \/ NewClient(t) \/ Insert(t) \/ InitFails(t)
                               \/ InitSucceeds(t) \/ Return(t)
        \/ \E h \in Handles : DestroyClient(h)

RegistrySpec == RegistryInit /\ [][RegistryNext]_registryVars

-----------------------------------------------------------------------------
\* The types, and which threads hold a client.
RegistryTypeOK ==
  /\ nextHandle \in Handles
  /\ totalZkClients \in [Handles -> Clients \cup {NoClient}]
  /\ creations \in 0..MaxCreations
  /\ handleOf \in [Clients -> Handles]
  /\ createPc \in [Creators -> CreatePcs]
  /\ loaded \in [Creators -> Handles]
  /\ client \in [Creators -> Clients \cup {NoClient}]
  /\ isInit \subseteq Clients
  /\ returned \subseteq Clients \X Handles
  /\ destroyed \subseteq Clients
  /\ destroys \in 0..MaxDestroys
  /\ \A t \in Creators : client[t] # NoClient <=> createPc[t] \in {"insert", "init", "return"}

\* "Creates a ZkClient; if it succeeds, returns the handle that corresponds to it; 0
\* if it fails (thread safe)" (comment at ZkClientManager.h:68): the handle that a
\* creation returns finds the client it made, until that client is destroyed or a
\* creation 2^32 - 1 calls later takes the handle over, and is the handle_ with
\* which the client's own timers look it up.
OwnHandle ==
  \A r \in returned :
    /\ r[2] # 0 /\ handleOf[r[1]] = r[2]
    /\ GetZkClient(r[2]) = r[1] \/ r[1] \in destroyed
         \/ \E c \in Clients : c > r[1] /\ c <= creations /\ handleOf[c] = r[2]

\* A client is reachable, for its own timers and sessionWatcher, under its handle_
\* only: no handle finds a client that was constructed with another one.
KeyIsHandle ==
  \A h \in Handles : AnyZkClient(h) # NoClient => handleOf[AnyZkClient(h)] = h

\* ZkClientManager.cc:67-105: the types hold, and no handle finds a client made with
\* another one.
HandlesKept == RegistryTypeOK /\ KeyIsHandle
=============================================================================
