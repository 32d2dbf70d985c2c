-------------------------- MODULE DirectoryGrpcPut --------------------------
(***************************************************************************)
(* Uploading a closure over gRPC: the GRPCPutter of the client             *)
(* (directoryservice/grpc.rs), the request task it spawned and the channel *)
(* between them, and the server's put handler                              *)
(* (proto/grpc_directoryservice_wrapper.rs), which validates the stream    *)
(* and writes it to its backend through a SimplePutter (DirectoryService). *)
(*                                                                         *)
(* Messages of one request arrive in order or the connection breaks.       *)
(***************************************************************************)
EXTENDS DirectoryService

CONSTANTS Uploaders, MaxPuts   \* MaxPuts bounds the put() calls of one putter

ASSUME UploadersAssumption == Uploaders \subseteq Putters

VARIABLES
    cput,      \* cput[c]: the client's putter; anything but "open" has dropped the sender
    accepted,  \* accepted[c]: sequence of directories whose put() returned Ok
    chan,      \* chan[c]: directories sent and not yet read by the handler
    task,      \* task[c]: the request task: "running", "ok" or "err"
    srv,       \* srv[c]: the handler
    sgraph,    \* sgraph[c]: validator of the handler
    rest       \* rest[c]: drained directories the handler has not put yet

uvars == <<cput, accepted, chan, task, srv, sgraph, rest>>

UploadInit ==
    /\ cput = [c \in Uploaders |-> "open"]
    /\ accepted = [c \in Uploaders |-> <<>>]
    /\ chan = [c \in Uploaders |-> <<>>]
    /\ task = [c \in Uploaders |-> "running"]
    /\ srv = [c \in Uploaders |-> "receiving"]
    /\ sgraph = [c \in Uploaders |-> EmptyGraph({})]
    /\ rest = [c \in Uploaders |-> {}]

-----------------------------------------------------------------------------
(* GRPCPutter::put.  While the request runs the directory goes into the    *)
(* channel; once its receiver is gone, put() closes the putter to learn    *)
(* the error, and returns Ok if there was none.                            *)
ClientPut(c, d) ==
    /\ cput[c] = "open" /\ Len(accepted[c]) < MaxPuts
    /\ IF task[c] = "running"
       THEN /\ chan' = [chan EXCEPT ![c] = Append(@, d)]
            /\ accepted' = [accepted EXCEPT ![c] = Append(@, d)]
            /\ UNCHANGED cput
       ELSE /\ cput' = [cput EXCEPT ![c] = IF task[c] = "ok" THEN "closed_ok" ELSE "closed_err"]
            /\ accepted' = [accepted EXCEPT ![c] = IF task[c] = "ok" THEN Append(@, d) ELSE @]
            /\ UNCHANGED chan
    /\ UNCHANGED <<task, srv, sgraph, rest>>
    /\ UNCHANGED vars

(* GRPCPutter::close: drop the sender, then wait for the task.             *)
ClientClose(c) ==
    /\ cput[c] = "open"
    /\ cput' = [cput EXCEPT ![c] = "closing"]
    /\ UNCHANGED <<accepted, chan, task, srv, sgraph, rest>>
    /\ UNCHANGED vars

ClientClosed(c) ==
    /\ cput[c] = "closing" /\ task[c] # "running"
    /\ cput' = [cput EXCEPT ![c] = IF task[c] = "ok" THEN "closed_ok" ELSE "closed_err"]
    /\ UNCHANGED <<accepted, chan, task, srv, sgraph, rest>>
    /\ UNCHANGED vars

(* A putter dropped without close(): the sender goes away, the task goes   *)
(* on.                                                                     *)
ClientDrop(c) ==
    /\ cput[c] = "open"
    /\ cput' = [cput EXCEPT ![c] = "dropped"]
    /\ UNCHANGED <<accepted, chan, task, srv, sgraph, rest>>
    /\ UNCHANGED vars

(* The task returns what the server answered.                              *)
TaskReturns(c) ==
    /\ task[c] = "running" /\ srv[c] \in {"ok", "err", "aborted"}
    /\ task' = [task EXCEPT ![c] = IF srv[c] = "ok" THEN "ok" ELSE "err"]
    /\ UNCHANGED <<cput, accepted, chan, srv, sgraph, rest>>
    /\ UNCHANGED vars

(* The connection breaks: the task fails; a handler still reading gets the *)
(* error, a later one may be cut short or go on.                           *)
ConnectionBreaks(c) ==
    /\ task[c] = "running"
    /\ task' = [task EXCEPT ![c] = "err"]
    /\ \/ srv' = [srv EXCEPT ![c] = "aborted"]
       \/ srv[c] # "receiving" /\ UNCHANGED srv
    /\ UNCHANGED <<cput, accepted, chan, sgraph, rest>>
    /\ UNCHANGED vars

-----------------------------------------------------------------------------
(* The handler reads the next directory into its graph.                    *)
ServerReceive_skips(c) ==
    /\ srv[c] = "receiving" /\ chan[c] # <<>>
    /\ chan' = [chan EXCEPT ![c] = Tail(@)]
    /\ \E out \in LeavesToRoot_add(sgraph[c], Head(chan[c])) :
          sgraph' = [sgraph EXCEPT ![c] = IF out.res = "ok" THEN out.graph ELSE @]
    /\ UNCHANGED <<cput, accepted, task, srv, rest>>
    /\ UNCHANGED vars

ServerReceive(c) ==
    /\ srv[c] = "receiving" /\ chan[c] # <<>>
    /\ chan' = [chan EXCEPT ![c] = Tail(@)]
    /\ \E out \in LeavesToRoot_add(sgraph[c], Head(chan[c])) :
          /\ sgraph' = [sgraph EXCEPT ![c] = out.graph]
          /\ srv' = [srv EXCEPT ![c] = IF out.res = "ok" THEN @ ELSE "err"]
    /\ UNCHANGED <<cput, accepted, task, rest>>
    /\ UNCHANGED vars

(* The stream ended: validate and drain.                                   *)
ServerValidates(c) ==
    /\ srv[c] = "receiving" /\ chan[c] = <<>> /\ cput[c] # "open"
    /\ IF validate(sgraph[c])
       THEN /\ srv' = [srv EXCEPT ![c] = "forwarding"]
            /\ rest' = [rest EXCEPT ![c] = Drained(sgraph[c])]
       ELSE srv' = [srv EXCEPT ![c] = "err"] /\ UNCHANGED rest
    /\ UNCHANGED <<cput, accepted, chan, task, sgraph>>
    /\ UNCHANGED vars

(* directory_putter.put for each drained directory, leaves first.          *)
ServerForwards(c, d) ==
    /\ srv[c] = "forwarding" /\ d \in rest[c] /\ Refs(d) \cap rest[c] = {}
    /\ Put(c, d)
    /\ rest' = [rest EXCEPT ![c] = @ \ {d}]
    /\ srv' = [srv EXCEPT ![c] = IF rejected'[c] THEN "err" ELSE @]
    /\ UNCHANGED <<cput, accepted, chan, task, sgraph>>

(* directory_putter.close(), and its stores.                               *)
ServerCloses(c) ==
    /\ srv[c] = "forwarding" /\ rest[c] = {}
    /\ Close(c)
    /\ srv' = [srv EXCEPT ![c] = IF pc'[c] = "closing" THEN "closing" ELSE "err"]
    /\ UNCHANGED <<cput, accepted, chan, task, sgraph, rest>>

ServerStores_early(c, d) ==
    /\ srv[c] = "closing"
    /\ StoreOne(c, d)
    /\ srv' = [srv EXCEPT ![c] = "ok"]
    /\ UNCHANGED <<cput, accepted, chan, task, sgraph, rest>>

ServerStores(c, d) ==
    /\ srv[c] = "closing"
    /\ StoreOne(c, d)
    /\ srv' = [srv EXCEPT ![c] = IF pc'[c] = "done" THEN "ok" ELSE @]
    /\ UNCHANGED <<cput, accepted, chan, task, sgraph, rest>>

BackendFails(c) ==
    /\ srv[c] = "closing"
    /\ StoreFails(c)
    /\ srv' = [srv EXCEPT ![c] = "err"]
    /\ UNCHANGED <<cput, accepted, chan, task, sgraph, rest>>

-----------------------------------------------------------------------------
ServerStep(c) ==
    \/ ServerReceive(c) \/ ServerValidates(c) \/ ServerCloses(c)
    \/ \E d \in Dirs : ServerForwards(c, d) \/ ServerStores(c, d)

UploadStep(c) ==
    \/ ClientClose(c) \/ ClientClosed(c) \/ ClientDrop(c) \/ TaskReturns(c)
    \/ ConnectionBreaks(c) \/ BackendFails(c) \/ ServerStep(c)
    \/ \E d \in Dirs : ClientPut(c, d)

-----------------------------------------------------------------------------
(* When close() succeeds, every directory whose put() returned Ok is in    *)
(* the server's store: none was lost in the channel, refused by the        *)
(* handler after put() had returned ("due to bursting"), or dropped by a   *)
(* send to a request that was over.                                        *)
UploadMeansStored ==
    \A c \in Uploaders : cput[c] = "closed_ok" =>
        \A i \in DOMAIN accepted[c] : accepted[c][i] \in db

=============================================================================
