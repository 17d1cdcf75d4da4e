SPECIFICATION Spec
CONSTANTS
    a = a
    b = b
    c = c
    LastPart = 1
    Transfers <- MCTransfers
    PartOf <- MCPartOf
    Outcomes = {"Success"}
    DesiredStatuses = {"Cancelling"}
    MaxCancels = 1
    PartsChannelSize = 1
    TransferChannelSize = 1
    XferDoneSize = 1
PROPERTY CompletedIsFinal
