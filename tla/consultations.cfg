SPECIFICATION Spec
CONSTANTS
    Turns = {t1, t2}
\* The turns may all be over.
CHECK_DEADLOCK FALSE
INVARIANTS
    TypeOK
    AnswerIsGrounded
    PromiseIsRecorded
    ChatFailsSoftly
PROPERTY EveryUserIsTold
