------------------------------ MODULE MCConsole ------------------------------
\* A small instance of Console: one VM that programs its interrupt controller and
\* UART, one that only uses its UART.
EXTENDS Console

MCLoads == {"AUX_MU_IO_REG", "AUX_MU_LSR_REG", "IRQ_BASIC_PENDING"}
MCStores ==
  {<<"AUX_ENABLES", {0}>>, <<"ENABLE_IRQS_1", {1, 25}>>, <<"AUX_MU_IER_REG", {0}>>,
   <<"AUX_MU_IIR_REG", {1, 2}>>, <<"AUX_MU_LCR_REG", {7}>>,
   <<"FIQ_CONTROL", {7, 5, 4, 3, 0}>>}
==============================================================================
