CONSTANTS
    n1 = n1
    s1 = s1
    s2 = s2
    Nil = Nil
    Slots = {101, 102, 103}
    Nums = {n1}
    Strs = {s1, s2}
    HashOf <- MCHashOf
    LastGen = 1
    FirstSizes = {3, 16}
    MaxSize = 16
    IndexOf <- MCIndexOf
    MaxChain = 2
SPECIFICATION Spec
VIEW State
INVARIANTS ListExact IndexExact LoopOwes
PROPERTIES IsOrderedMap
