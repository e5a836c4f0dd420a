-------------------------------- MODULE Cloud --------------------------------
(***************************************************************************)
(* The cloud providers behind the scheduler (pkg/provider): one machine of *)
(* one provider, from CreateVM over ExecuteCommand to DeleteVM, with calls *)
(* that fail, answers that are lost and restarts of the control plane.     *)
(*                                                                         *)
(* The eight providers share one control flow; what differs between them   *)
(* is data, two records per provider:                                      *)
(*   plan     the resources CreateVM creates, in order                     *)
(*   subnet   whether a configured subnet is required, refused or neither  *)
(*   until    what ends the poll that follows the creation                 *)
(*   strict   whether a poll without result fails the call                 *)
(*   zoned    whether later calls go to the configured zone, not the VM's  *)
(*   key      the SSH key: stored, only in memory, or not used             *)
(*   exit     where the exit code comes from                               *)
(*                                                                         *)
(* State: the provider; the cloud's side (the resources that exist, the    *)
(* VM's state, its address, its agent or sshd, whether it is in the zone   *)
(* the provider is configured for); the key in memory and on disk; the     *)
(* call under way; whether the caller has the VM's id; what the last call  *)
(* returned; the fate of the remote command.                               *)
(* History: calls and faults so far, under their bounds; whether there was *)
(* a restart; whether the key could not be saved; the resources whose      *)
(* removal the cloud refused for a reason of its own.                      *)
(***************************************************************************)
EXTENDS Integers, Sequences

CONSTANTS Providers,   \* the providers to look at, among Names
          KeyDir,      \* SANDRPOD_SSH_KEY_DIR is set
          MaxCalls,    \* bound on calls
          MaxFaults    \* bound on failed calls and restarts

Names == {"aws", "azure", "gcp", "hetzner", "digitalocean", "oracle", "tencent", "aliyun"}

VARIABLES prov, cloud, key, op, known, out, remote, calls, faults, hist

vars == <<prov, cloud, key, op, known, out, remote, calls, faults, hist>>

-----------------------------------------------------------------------------
(* The providers *)

HetznerCreate == [plan |-> <<"vm">>, subnet |-> "any", until |-> {"ip"},
                  strict |-> FALSE, zoned |-> FALSE]

DigitalOceanCreate == [plan |-> <<"vm">>, subnet |-> "any", until |-> {"ip"},
                       strict |-> FALSE, zoned |-> FALSE]

GcpCreate == [plan |-> <<"vm">>, subnet |-> "any", until |-> {"ip"},
              strict |-> FALSE, zoned |-> TRUE]

\* The waiter waits for running; without it and without a description the
\* call fails although the VM is there.
AwsCreate == [plan |-> <<"vm">>, subnet |-> "any", until |-> {"running"},
              strict |-> TRUE, zoned |-> FALSE]

\* The public address and the NIC are resources of their own, created first.
AzureCreate == [plan |-> <<"pip", "nic", "vm">>, subnet |-> "required", until |-> {},
                strict |-> FALSE, zoned |-> FALSE]

OracleCreate == [plan |-> <<"vm">>, subnet |-> "required", until |-> {"running_ip"},
                 strict |-> FALSE, zoned |-> FALSE]

\* A subnet alone is refused: Tencent needs the VPC too.
TencentCreate == [plan |-> <<"vm">>, subnet |-> "refused", until |-> {"running", "ip"},
                  strict |-> FALSE, zoned |-> FALSE]

AliyunCreate == [plan |-> <<"vm">>, subnet |-> "any", until |-> {"running", "ip"},
                 strict |-> FALSE, zoned |-> FALSE]

HetznerExec == [key |-> "stored", exit |-> "ssh"]

DigitalOceanExec == [key |-> "stored", exit |-> "ssh"]

GcpExec == [key |-> "memory", exit |-> "ssh"]

\* SSM reports -1 for a command without an exit code of its own.
AwsExec == [key |-> "none", exit |-> "state"]

\* Run Command has no exit code: the script is made to print it at its end.
AzureExec == [key |-> "none", exit |-> "sentinel"]

\* A state other than success never reads as exit 0.
OracleExec == [key |-> "none", exit |-> "state"]

TencentExec == [key |-> "none", exit |-> "state"]

\* A command that was cut off is an error, whatever its code.
AliyunExec == [key |-> "none", exit |-> "code"]

Create == [aws |-> AwsCreate, azure |-> AzureCreate, gcp |-> GcpCreate,
           hetzner |-> HetznerCreate, digitalocean |-> DigitalOceanCreate,
           oracle |-> OracleCreate, tencent |-> TencentCreate, aliyun |-> AliyunCreate]

Exec == [aws |-> AwsExec, azure |-> AzureExec, gcp |-> GcpExec,
         hetzner |-> HetznerExec, digitalocean |-> DigitalOceanExec,
         oracle |-> OracleExec, tencent |-> TencentExec, aliyun |-> AliyunExec]

\* DeleteVM takes down what CreateVM made, in reverse: the cloud refuses a NIC
\* that a VM uses and an address that a NIC uses.
Teardown ==
    [i \in DOMAIN Create[prov].plan |->
        Create[prov].plan[Len(Create[prov].plan) + 1 - i]]

Uses == [vm |-> {}, nic |-> {"vm"}, pip |-> {"nic"}]

Idle == [kind |-> "idle", step |-> 0]

Keyed  == Exec[prov].key # "none"
Stored == Exec[prov].key = "stored" /\ KeyDir

-----------------------------------------------------------------------------
(* CreateVM *)

Call(kind) ==
    /\ op = Idle /\ calls < MaxCalls
    /\ calls' = calls + 1
    /\ op' = [kind |-> kind, step |-> 1]

Returns(result) == op' = Idle /\ out' = result

\* The checks before the first request to the cloud; the request names a zone.
CreateBegins ==
    /\ cloud.res = {} /\ ~known
    /\ Call("create")
    /\ \E own \in (IF Create[prov].zoned THEN BOOLEAN ELSE {TRUE}) :
          cloud' = [cloud EXCEPT !.vm = "none", !.own = own]
    /\ out' = "none" /\ remote' = "none"
    /\ UNCHANGED <<prov, key, known, faults, hist>>

\* No subnet where one is required, a subnet where it is refused, or no image.
CreateRefused ==
    /\ op = Idle /\ cloud.res = {} /\ ~known /\ calls < MaxCalls
    /\ Create[prov].subnet \in {"required", "refused"}
    /\ calls' = calls + 1
    /\ out' = "error"
    /\ UNCHANGED <<prov, cloud, key, op, known, remote, faults, hist>>

\* One resource is there; after the VM its key is remembered, and saved if it
\* can be, and the poll begins.
CreateStep ==
    LET plan == Create[prov].plan
        last == op.step = Len(plan)
    IN  /\ op.kind = "create"
        /\ cloud' = [cloud EXCEPT !.res = @ \cup {plan[op.step]},
                                  !.vm  = IF last THEN "booting" ELSE @]
        /\ op' = IF last THEN [kind |-> "poll", step |-> 1]
                 ELSE [op EXCEPT !.step = @ + 1]
        /\ IF ~last \/ ~Keyed THEN UNCHANGED <<key, hist, faults>>
           ELSE \/ /\ key' = [mem |-> TRUE, disk |-> Stored]
                   /\ UNCHANGED <<hist, faults>>
                \/ /\ Stored /\ faults < MaxFaults /\ faults' = faults + 1
                   /\ key' = [mem |-> TRUE, disk |-> FALSE]
                   /\ hist' = [hist EXCEPT !.unsaved = TRUE]
        /\ UNCHANGED <<prov, known, out, remote, calls>>

\* The request or the wait for it fails; the cloud may have done it all the
\* same.  Nothing that exists by then is taken down.
CreateFails ==
    /\ op.kind = "create" /\ faults < MaxFaults
    /\ faults' = faults + 1
    /\ \E done \in BOOLEAN :
          IF ~done THEN UNCHANGED cloud
          ELSE LET r == Create[prov].plan[op.step] IN
               cloud' = [cloud EXCEPT !.res = @ \cup {r},
                                      !.vm = IF r = "vm" THEN "booting" ELSE @]
    /\ Returns("error")
    /\ UNCHANGED <<prov, key, known, remote, calls, hist>>

Sees(what) ==
    CASE what = "ip"             -> cloud.ip
      [] what = "running"        -> cloud.vm = "running"
      [] what = "running_ip"     -> cloud.vm = "running" /\ cloud.ip

\* The poll sees what it waits for.
PollSees ==
    /\ op.kind = "poll"
    /\ Create[prov].until = {} \/ \E u \in Create[prov].until : Sees(u)
    /\ known' = TRUE
    /\ Returns("created")
    /\ UNCHANGED <<prov, cloud, key, remote, calls, faults, hist>>

\* The poll's time is over: what was seen last is returned, even without an
\* address; a strict provider fails if it cannot describe the VM either.
PollEnds ==
    /\ op.kind = "poll"
    /\ \/ known' = TRUE /\ Returns("created") /\ UNCHANGED faults
       \/ /\ Create[prov].strict /\ faults < MaxFaults
          /\ faults' = faults + 1
          /\ Returns("error") /\ UNCHANGED known
    /\ UNCHANGED <<prov, cloud, key, remote, calls, hist>>

-----------------------------------------------------------------------------
(* ExecuteCommand *)

\* A provider without a managed agent needs its key, from memory or from the
\* directory, and the VM's address.
ExecBegins ==
    /\ known /\ Call("send")
    /\ Keyed => key.mem \/ key.disk
    /\ Keyed => "vm" \in cloud.res /\ cloud.own /\ cloud.ip
    /\ key' = [key EXCEPT !.mem = Keyed]
    /\ out' = "none" /\ remote' = "none"
    /\ UNCHANGED <<prov, cloud, known, faults, hist>>

\* The key is gone, or the VM cannot be looked up or has no address.
ExecRefused ==
    /\ known /\ op = Idle /\ calls < MaxCalls /\ Keyed
    /\ ~(key.mem \/ key.disk) \/ "vm" \notin cloud.res \/ ~cloud.own \/ ~cloud.ip
    /\ calls' = calls + 1
    /\ out' = "error"
    /\ key' = [key EXCEPT !.mem = @ \/ key.disk]
    /\ UNCHANGED <<prov, cloud, op, known, remote, faults, hist>>

\* Sent, once the agent or sshd is up; until then it is tried again.
SendAccepted ==
    /\ op.kind = "send" /\ cloud.agent /\ "vm" \in cloud.res
    /\ op' = [kind |-> "wait", step |-> 1]
    /\ remote' = "queued"
    /\ UNCHANGED <<prov, cloud, key, known, out, calls, faults, hist>>

\* A permanent error, or the registration window is over.
SendFails ==
    /\ op.kind = "send"
    /\ Returns("error")
    /\ UNCHANGED <<prov, cloud, key, known, remote, calls, faults, hist>>

\* The command ends on the machine: at its last line with or without success,
\* by an exit of its own before it, or cut off without an exit code.
CommandEnds ==
    /\ remote = "queued" /\ "vm" \in cloud.res
    /\ \E r \in {"succeeded", "failed", "exited", "cut"} : remote' = r
    /\ UNCHANGED <<prov, cloud, key, op, known, out, calls, faults, hist>>

\* Mutant of Result: a terminal state without an exit code counts as 0.
ResultOfCut(r) ==
    IF r \in {"succeeded", "cut"} THEN "exit0"
    ELSE IF r = "exited" /\ Exec[prov].exit = "sentinel" THEN "exit0"
    ELSE "exit1"

\* What is made of the outcome.  The sentinel is not printed by a script that
\* exits early or is killed, and its absence counts as 0.
Result(r) ==
    IF r = "succeeded" THEN "exit0"
    ELSE IF r = "failed" THEN "exit1"
    ELSE IF Exec[prov].exit = "sentinel" THEN "exit0"
    ELSE IF r = "cut" /\ Exec[prov].exit \in {"ssh", "code"} THEN "error"
    ELSE "exit1"

\* The result is read.
ExecReturns ==
    /\ op.kind = "wait" /\ remote \notin {"none", "queued"}
    /\ Returns(Result(remote))
    /\ UNCHANGED <<prov, cloud, key, known, remote, calls, faults, hist>>

\* The deadline passes first.
WaitEnds ==
    /\ op.kind = "wait"
    /\ Returns("error")
    /\ UNCHANGED <<prov, cloud, key, known, remote, calls, faults, hist>>

-----------------------------------------------------------------------------
(* DeleteVM *)

\* Mutant of DeleteBegins: the key is dropped before the VM is deleted.
DeleteBeginsKeyFirst ==
    /\ known /\ Call("delete")
    /\ key' = [mem |-> FALSE, disk |-> FALSE]
    /\ out' = "none"
    /\ UNCHANGED <<prov, cloud, known, remote, faults, hist>>

DeleteBegins ==
    /\ known /\ Call("delete")
    /\ out' = "none"
    /\ UNCHANGED <<prov, cloud, key, known, remote, faults, hist>>

\* After the last resource the key is dropped, in memory and on disk.
AfterDelete(n) ==
    IF n < Len(Teardown)
    THEN op' = [op EXCEPT !.step = n + 1] /\ UNCHANGED <<key, known, out>>
    ELSE /\ key' = [mem |-> FALSE, disk |-> FALSE]
         /\ known' = FALSE
         /\ Returns("deleted")

\* The next resource is deleted, unless another still uses it; failures after
\* the first are ignored.
DeleteStep ==
    LET r == Teardown[op.step]
        refused == Uses[r] \cap cloud.res # {}
    IN  /\ op.kind = "delete" /\ cloud.own
        /\ op.step = 1 => ~refused
        /\ \/ /\ cloud' = IF refused THEN cloud
                          ELSE [cloud EXCEPT !.res = @ \ {r},
                                             !.vm = IF r = "vm" THEN "gone" ELSE @,
                                             !.agent = IF r = "vm" THEN FALSE ELSE @]
              /\ UNCHANGED <<faults, hist>>
           \/ /\ op.step > 1 /\ faults < MaxFaults
              /\ faults' = faults + 1
              /\ hist' = [hist EXCEPT !.refused = @ \cup {r}]
              /\ UNCHANGED cloud
        /\ AfterDelete(op.step)
        /\ UNCHANGED <<prov, remote, calls>>

\* The VM cannot be deleted, or its answer is lost: the call fails, and the
\* caller keeps the id.
DeleteFails ==
    /\ op.kind = "delete" /\ op.step = 1
    /\ \/ (~cloud.own \/ Uses[Teardown[1]] \cap cloud.res # {}) /\ UNCHANGED <<cloud, faults>>
       \/ /\ faults < MaxFaults /\ faults' = faults + 1
          /\ \/ UNCHANGED cloud
             \/ cloud' = [cloud EXCEPT !.res = @ \ {"vm"}, !.vm = "gone", !.agent = FALSE]
    /\ Returns("error")
    /\ UNCHANGED <<prov, key, known, remote, calls, hist>>

-----------------------------------------------------------------------------
(* The cloud, and the control plane's restart *)

VMRuns ==
    /\ cloud.vm = "booting"
    /\ cloud' = [cloud EXCEPT !.vm = "running"]
    /\ UNCHANGED <<prov, key, op, known, out, remote, calls, faults, hist>>

AddressAssigned ==
    /\ "vm" \in cloud.res /\ ~cloud.ip
    /\ cloud' = [cloud EXCEPT !.ip = TRUE]
    /\ UNCHANGED <<prov, key, op, known, out, remote, calls, faults, hist>>

\* The VM's management agent or sshd comes up, if ever.
AgentRegisters ==
    /\ cloud.vm = "running" /\ ~cloud.agent
    /\ cloud' = [cloud EXCEPT !.agent = TRUE]
    /\ UNCHANGED <<prov, key, op, known, out, remote, calls, faults, hist>>

\* The provider's memory is gone; the id is in the worker's record.
Restart ==
    /\ faults < MaxFaults
    /\ faults' = faults + 1
    /\ op' = Idle /\ out' = "none"
    /\ key' = [key EXCEPT !.mem = FALSE]
    /\ hist' = [hist EXCEPT !.restarted = TRUE]
    /\ UNCHANGED <<prov, cloud, known, remote, calls>>

-----------------------------------------------------------------------------
Init ==
    /\ prov \in Providers
    /\ cloud = [res |-> {}, vm |-> "none", ip |-> FALSE, agent |-> FALSE, own |-> TRUE]
    /\ key = [mem |-> FALSE, disk |-> FALSE]
    /\ op = Idle
    /\ known = FALSE /\ out = "none" /\ remote = "none"
    /\ calls = 0 /\ faults = 0
    /\ hist = [restarted |-> FALSE, unsaved |-> FALSE, refused |-> {}]

Next ==
    \/ CreateBegins \/ CreateRefused \/ CreateStep \/ CreateFails
    \/ PollSees \/ PollEnds
    \/ ExecBegins \/ ExecRefused \/ SendAccepted \/ SendFails
    \/ CommandEnds \/ ExecReturns \/ WaitEnds
    \/ DeleteBegins \/ DeleteStep \/ DeleteFails
    \/ VMRuns \/ AddressAssigned \/ AgentRegisters \/ Restart

\* Every request is answered or times out, and every wait has its deadline.
Fairness ==
    /\ WF_vars(CreateStep) /\ WF_vars(PollEnds) /\ WF_vars(SendFails)
    /\ WF_vars(WaitEnds) /\ WF_vars(DeleteStep) /\ WF_vars(DeleteFails)

Spec == Init /\ [][Next]_vars /\ Fairness

-----------------------------------------------------------------------------
(* Properties *)

\* A command reads as exit 0 only if it succeeded on the machine; with Azure
\* only a script that runs to its last line can be told.
NoFalseSuccess ==
    out = "exit0" =>
        \/ remote = "succeeded"
        \/ prov = "azure" /\ remote \in {"exited", "cut"}

\* As long as the VM exists and the caller has its id, a provider that reaches
\* it over SSH has its key: also after a failed delete, and after a restart
\* where keys are kept on disk and the key could be written.
StillReachable ==
    op = Idle /\ known /\ Keyed /\ "vm" \in cloud.res =>
        \/ key.mem \/ key.disk
        \/ hist.restarted /\ (~Stored \/ hist.unsaved)

\* A delete that returns without error leaves nothing in the cloud but what
\* the cloud itself failed to remove and what that uses, and no key.
NothingLeft ==
    out = "deleted" =>
        /\ \A r \in cloud.res : r \in hist.refused \/ Uses[r] \cap cloud.res # {}
        /\ ~key.mem /\ ~key.disk

\* Every call returns, also when the VM's agent never registers.
CallsReturn == op # Idle ~> op = Idle
=============================================================================
