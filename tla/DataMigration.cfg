\* Two sessions and a message, or batch.
SPECIFICATION DataSpec
CONSTANTS
    Sessions = {s1, s2}
    Messages = {m1}
PROPERTIES  AllOrNothing
