CONSTANTS
    MinimalConfig <- MCMinimalConfig
    Images = {"oceanbase"}
    Classes = {"local-path"}
    Extra = 1
    Undef = Undef
    Null = Null
    Empty = Empty
SPECIFICATION Spec
INVARIANT TypeOK
PROPERTY MinimalKeepsChoices
