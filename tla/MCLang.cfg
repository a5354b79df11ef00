SPECIFICATION Spec
CONSTANT Programs <- MCPrograms
INVARIANTS CodeVerified MeansWhatItSays OpenRefsAreLive SelfCallsDoNotStack
PROPERTY Terminates
