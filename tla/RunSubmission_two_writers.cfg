CONSTANTS
    Requests = {q1, q2, q3}
    Sources = {s1}
    Datasets = {d1, d2}
    NoOne = NoOne
SPECIFICATION SubmissionSpec
INVARIANTS
    OneWriterPerDataset
CHECK_DEADLOCK FALSE
