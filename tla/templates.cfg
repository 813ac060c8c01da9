SPECIFICATION Spec
CONSTANTS
    page = page
    list = list
    row = row
    loop = loop
    text = text
    t1 = t1
    t2 = t2
    NoTemplate = NoTemplate
    File <- Files
    Inline = {text}
    Thread = {t1, t2}
    IncludesOf <- Includes
    MaxIncluded = 1
    MaxWrites = 3
    MaxCalls = 2
SYMMETRY Symmetry
CHECK_DEADLOCK FALSE
INVARIANT NoTemplateInsideItself FreshTemplates FailuresAreReal CacheIsBounded
