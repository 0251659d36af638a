--------------------------- MODULE MCModuleInputs ---------------------------
(***************************************************************************)
(* Inputs at and around every boundary the code tests.  The limits are     *)
(* scaled down: an id of two bytes, integers of ten bits, doubles of five. *)
(***************************************************************************)
EXTENDS ModuleInputs, TLC

Str(text) == [type |-> "string", text |-> text]
Num(type, n) == [type |-> type, number |-> n]
Null == [type |-> "null"]
Object(members) == [type |-> "object", members |-> members]
NoMembers == [key \in {} |-> Null]

-----------------------------------------------------------------------------
Command == "logos.managed_node_lifecycle.command"

Ids == {Absent, Num("unsigned", 1)} \cup
       {[type |-> "string", bytes |-> b] :
          b \in {<<>>, <<33>>, <<126, 33>>, <<32>>, <<33, 127>>, <<33, 33, 33>>}}

Parameters ==
  {Absent, Null, [type |-> "object", keys |-> {}], [type |-> "object", keys |-> {"other"}]} \cup
  {[type |-> "object", keys |-> {"config"}, config |-> c] :
     c \in {Null, [type |-> "string", size |-> MaxConfigBytes + 1, nul |-> FALSE]}
       \cup [type : {"string"}, size : {MaxConfigBytes}, nul : BOOLEAN]} \cup
  {[type |-> "object", keys |-> {"config", "other"},
    config |-> [type |-> "string", size |-> 0, nul |-> FALSE]]}

Snapshot(keys, id, epoch, sequence) ==
  [type |-> "object", keys |-> keys, instance_id |-> id, epoch |-> epoch, sequence |-> sequence]
Whole == {"instance_id", "epoch", "sequence"}
Snapshots ==
  {Absent, Null} \cup
  {Snapshot(keys, Str("id"), Num("unsigned", 0), n) :
     keys \in {Whole, Whole \cup {"other"}, Whole \ {"epoch"}},
     n \in {Num("unsigned", 3), Num("integer", -1)}} \cup
  {Snapshot(Whole, Null, Num("unsigned", 0), Num("unsigned", 0))}

\* One thing wrong with the envelope, or nothing.
Envelopes ==
  {[size |-> MaxRequestBytes, extra |-> {}, schema |-> Str(Command), version |-> v] :
     v \in {Num("unsigned", 1), Num("integer", -1), Num("float", 1)}} \cup
  {[size |-> MaxRequestBytes + 1, extra |-> {}, schema |-> Str(Command), version |-> Num("unsigned", 1)],
   [size |-> 1, extra |-> {"other"}, schema |-> Str(Command), version |-> Num("unsigned", 1)],
   [size |-> 1, extra |-> {}, schema |-> Null, version |-> Num("unsigned", 1)]}

MCRawRequests ==
  {[size |-> 1, input |-> Absent], [size |-> 1, input |-> Null]} \cup
  {[size |-> e.size,
    input |-> [type |-> "object", keys |-> KnownKeys \cup e.extra,
               schema |-> e.schema, version |-> e.version, operation_id |-> id,
               action |-> a, expected |-> x, parameters |-> p]] :
     e \in Envelopes, id \in Ids, x \in Snapshots, p \in Parameters,
     a \in {Absent, Str("restart"), Str("initialize"), Str("start")}}

-----------------------------------------------------------------------------
Spell(field, spelling) == [field |-> field, spelling |-> spelling]
One == [type |-> "number", text |-> ""]

\* Every way to give some of the keys, all with the value one.
Some(keys) == {[key \in given |-> One] : given \in SUBSET keys}

EntryLayers ==
  {NoMembers, Spell("entryLayer", Camel) :> Str("kernel"), Spell("entryLayer", Camel) :> Str("messaging"),
   Spell("entryLayer", Camel) :> One, Spell("entryLayer", Upper) :> Str("kernel"),
   Spell("entryLayer", Dashed) :> Str("kernel")}

KernelConfs ==
  {NoMembers, Spell("kernelConf", Camel) :> One, Spell("kernelConf", Dashed) :> Object(NoMembers),
   Spell("kernelConf", Upper) :> One @@ Spell("kernelConf", Camel) :> Object(NoMembers),
   Spell("kernelConf", Upper) :> Object(NoMembers) @@ Spell("kernelConf", Lower) :> One} \cup
  {Spell("kernelConf", Camel) :> Object(members) :
     members \in Some({Spell("tcpPort", Lower), Spell("restPort", Dashed), Spell(Storage, Camel)})}

MCConfigs ==
  {Invalid, One} \cup
  {Object(e @@ k @@ m @@ r) :
     e \in EntryLayers, k \in KernelConfs, m \in Some({Spell("mode", Camel)}),
     r \in Some({Spell("tcpPort", Camel), Spell("tcpPort", Dashed), Spell("restPort", Upper),
                 Spell(Storage, Dashed), Spell("other", Camel)})}

-----------------------------------------------------------------------------
MCQueries ==
  {[json |-> j, peer |-> p, timeoutMs |-> ms] :
     j \in {"", "query"}, p \in {"", "peer"},
     ms \in {-1, 0, 1, 999, 1000, 24999, 25000, 25999, 26000, 30000, 30999, 31000,
             IntMax - 1, IntMax, IntMax + 1, 2 * IntMax + 3}}

MCOutcomes ==
  {[success |-> TRUE, isText |-> t, text |-> "text"] : t \in BOOLEAN} \cup
  {[success |-> FALSE, isText |-> FALSE, text |-> "error"]}

-----------------------------------------------------------------------------
Elements == {Num("integer", n) : n \in {-1, 0, MaxByte, MaxByte + 1, 2 ^ Width - 1}} \cup {Num("float", 1)}

\* What encoders write, and the same with one character damaged or the last ones lost.
Encoded ==
  {base64Encode(b) : b \in UNION {[1 .. n -> {0, 155}] : n \in 0 .. 3}} \cup
  {base64Encode(<<255, 0, 155, 1, 254>>)}
Characters ==
  Encoded \cup
  UNION {{[t EXCEPT ![i] = c] : i \in DOMAIN t, c \in {Pad, Pad + 1}} \cup
         {SubSeq(t, 1, n) : n \in DOMAIN t} : t \in Encoded}

Payloads ==
  {Null} \cup {[type |-> "string", characters |-> c] : c \in Characters} \cup
  {[type |-> "array", elements |-> s] : s \in {<<>>} \cup {<<a, b>> : a \in Elements, b \in Elements}}

\* Nothing, or the name with one of the values.
Perhaps(name, values) == {NoMembers} \cup {name :> v : v \in values}

\* Every time that fits, and those next to the ends of the range.
SentTimes ==
  {Num("integer", n) : n \in Int64 \cup {2 ^ (Width - 1), 2 ^ Width - 1}} \cup
  {[type |-> "float", halves |-> h] : h \in {k \in -(2 ^ Width + 64) .. 2 ^ Width + 64 : AsDouble(k) = k}}

Messages ==
  {Null} \cup
  {Object(c @@ p) : c \in Perhaps("contentTopic", {Str("topic"), Null}),
                    p \in Perhaps("payload", Payloads)} \cup
  {Object(t) : t \in Perhaps("timestamp", SentTimes \cup {Null})}

MCEvents ==
  {[type |-> "malformed"], [type |-> "array"]} \cup
  {[type |-> "object", members |-> "eventType" :> Str("message_received") @@ h @@ m] :
     h \in Perhaps("messageHash", {Str("hash"), Null}), m \in Perhaps("message", Messages)} \cup
  {[type |-> "object", members |-> k @@ c @@ r @@ p] :
     k \in Perhaps("eventType", {Str(t) : t \in (EventTypes \ {"message_received"}) \cup {"other"}} \cup {Null}),
     c \in Perhaps("channelId", {Str("channel"), Null}),
     r \in Perhaps("requestId", {Str("request"), Null}),
     p \in Perhaps("payload", Payloads)}
=============================================================================
