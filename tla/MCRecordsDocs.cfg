\* The stream the SMB collector writes: items do not carry the identifier of their share.
CONSTANTS
    Nothing = Nothing
    Formats = {"smb_stream"}
    OutcomeLimit = 1
    MaxObservations = 3
SPECIFICATION Spec
INVARIANT OneRowPerShare
CHECK_DEADLOCK FALSE
