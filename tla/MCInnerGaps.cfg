CONSTANTS
    t1 = t1  t2 = t2  c1 = c1  c2 = c2  m1 = m1  m2 = m2  m3 = m3  pkg = pkg
    Threads = {t1, t2}
    Classes = {c1, c2}
    Members = {m1, m2, m3}
    DeclaredBy <- MCDeclaredBy
    Packages = {pkg}
    StartsWith <- MCStartsWith
    Null = Null
    Count = 4
SPECIFICATION MCSpec
INVARIANT AllInnerClasses
