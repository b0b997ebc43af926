------------------------------- MODULE MCStartup -------------------------------
EXTENDS Startup, Images

MCVolumes ==
  {Base, LongRoot, NoLoader, LateKernel, NoKernel, Far, High, FarProgram, LongLoader, LongKernel} \cup Layouts

MCStage2Name == Stage2.name
MCKernelName == Kern.name
MCKernels == {<<<<1, 4096, 1048576, 1048576, 300, 400, 4096>>>>}

MCArguments == {<<>>, <<"A">>, <<"A", "B">>, <<"A", "B", "C">>, <<"D">>, <<"E">>, <<"K">>, <<"X">>}

MCHeapWords == {0, 3, End}
MCHeapEntries == {NoEntry, Abc}
=============================================================================
