\* Bytes of four values, positions up to 7; whole and short reports; a queue of
\* two reports, so that it overflows.
SPECIFICATION Spec
CONSTANTS
    Positions = {0, 6}
    Base = 4
    AxisMax = 7
    ReportSizes = {6, 7}
    QueueSize = 2
    MaxReports = 3
    Raw = Raw
    None = None
INVARIANTS
    AnswersItsPedal
    NoAnswerFromBefore
CHECK_DEADLOCK FALSE
