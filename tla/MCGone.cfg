SPECIFICATION Spec
CONSTANTS
    Resources <- MCResources
    Requests <- MCRequests
    Images = 2
    MaxUploads = 1
    TxTries = 2
INVARIANTS ShownImagesExist
