\* An import one of whose rows is refused.
SPECIFICATION DataSpec
CONSTANTS
    Sessions = {s1}
    Messages = {m1}
PROPERTIES ImportedMeansReplaced
