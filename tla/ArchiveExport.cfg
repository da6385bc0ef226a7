SPECIFICATION Spec
CONSTANT Container = {c1, c2, c3}
INVARIANT TypeOK
PROPERTY ImplementsPromise
