SPECIFICATION FairSpec
CONSTANTS
    w1 = w1
    w2 = w2
    Worker = {w1, w2}
    Mortal = {w1}
    NRPC <- MCLimit
    NMap = 2
    NReduce = 2
    Contents <- MCContents
    NoFile = NoFile
    IHash <- MCIHash
CHECK_DEADLOCK FALSE
INVARIANTS
    TypeOK
    OneRpcPerWorker
    TasksAccountedFor
    ReduceInputsComplete
    OutputComplete
PROPERTIES
    JobCompletes
