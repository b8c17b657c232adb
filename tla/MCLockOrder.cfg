SPECIFICATION Spec
CONSTANTS
    Transactions = {"notification", "delivery", "finalization", "edit",
                    "pause", "delete", "rename", "name"}
INVARIANT NoDeadlock
