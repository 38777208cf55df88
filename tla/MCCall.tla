------------------------------- MODULE MCCall -------------------------------
(* Input sets of the model-checking runs of Call.                           *)
EXTENDS Call

DialEdits == {"setDialNumber", "setPeerContactMethod", "appendText", "backspaceItemText", "reset"}
EverydayInputs == {"ACCEPT", "REFUSE", "HOLD", "RECORD_AUDIO"} \cup DialEdits
TransferInputs == {"ACCEPT", "TRANSFER", "setTransferNumber", "backspaceItemText"}
TabledInputs == {"ACCEPT", "REFUSE", "HOLD", "TRANSFER", "RECORD_AUDIO", "setTransferNumber", "appendText"}
Calling == {"dialing", "incoming"}
Both == {TRUE, FALSE}
=============================================================================
