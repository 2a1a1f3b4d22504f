----------------------------- MODULE MCProgress -----------------------------
(***************************************************************************)
(* Uploads to the backend, and the sync panel with its worker: the two     *)
(* components of which something must come about.  A behaviour is about    *)
(* one of them, chosen in the initial state; the other stays as it is.     *)
(***************************************************************************)
EXTENDS BlobTransfer, SyncCenter

VARIABLE part

progressvars == <<tvars, yvars, part>>

MCChunksOf == [b \in Payloads |-> IF b \in EmptyPayloads THEN {1} ELSE {1, 2}]

ProgressInit ==
    /\ part \in {"transfer", "panel"}
    /\ TInit /\ YInit
    /\ part # "panel" => row = FreshRow /\ ~changed /\ ~ahead /\ ~differs

ProgressNext ==
    \/ part = "transfer" /\ TNext /\ UNCHANGED yvars
    \/ part = "panel" /\ YNext /\ UNCHANGED tvars

\* TFairness and YFairness, each of the component that moves.
ProgressFairness ==
    /\ \A d \in Uploaders : WF_tvars(part = "transfer" /\ Upload(d))
    /\ \A d \in Resumers, b \in Payloads :
          SF_tvars(part = "transfer" /\ client[d].at = "idle" /\ Expire(<<d, b>>))
    /\ WF_yvars(part = "panel" /\ Commands("worker"))
    /\ WF_yvars(/\ part = "panel"
                /\ OpenPanel \/ Commands("panel") \/ Resolve \/ ResolveFilemap \/ ResolveRow)
    /\ \A command \in Remedies : SF_yvars(part = "panel" /\ Choose(command))

ProgressSpec ==
    ProgressInit /\ [][ProgressNext /\ UNCHANGED part]_progressvars /\ ProgressFairness

\* Both components keep their variables in their types, whatever their code does.
ProgressTypeOK == TTypeOK /\ YTypeOK

\* A device that keeps trying gets its blobs to the backend (UploadsFinish).
DevicesUpload == part = "transfer" => UploadsFinish

\* A user who follows the panel gets back to where a commit is accepted
\* (GateReopens).
PanelReopensGate == part = "panel" => GateReopens
=============================================================================
