\* A submittal the mapper or the table may refuse, before two change events
\* that may have one number; the assistant proposes that number as well.
SPECIFICATION FairSpec
CONSTANTS
    sub = sub
    ev = ev
    ev2 = ev2
    Items <- JobItems
    ResourceOf <- JobResourceOf
    ProjectOf <- JobProjectOf
    IdOf <- JobIdOf
    Payloads <- JobPayloads
    Sessions <- JobSessions
    Proposals <- OneProposal
    MaxChanges = 4
    MaxFailures = 1
PROPERTIES SucceededMeansStored ProcoreWins CleanPartConverges
